---------------------------- MODULE Spec2Model ----------------------------
(***************************************************************************)
(* Three-player Squava (melvinzhang/squava): bitboard threat extraction,   *)
(* terminal detection, forced moves and the game-state transition.         *)
(*                                                                         *)
(* A Bitboard (uint64, bit r*8+c) is modelled as the set of its set bits,  *)
(* a subset of 0..63.  Shifts, masks, AND, OR and NOT are the word         *)
(* operations of the source on that set: a shift drops the bits that leave *)
(* the 64-bit word and performs no masking of its own.                     *)
(***************************************************************************)
EXTENDS Integers, FiniteSets, Sequences, TLC

BoardSize == 8
WinLength == 4
LoseLength == 3

\* Probe board of SpecBB: stones placed anywhere, and stones of a board grown
\* along the strides.
MaxFree == 3
MaxChain == 4

\* The caller of the game handlers: free play stops at MaxFreeStones stones,
\* and on a scripted game it tries the cells up to MaxAhead moves ahead.
MaxFreeStones == 8
MaxAhead == 2

\* The simulation test: at most MaxSetup stones are set before the first
\* step, and at most MaxSteps steps follow.
MaxSetup == 4
MaxSteps == 2

\* The search: budgets of 0..MaxIterations iterations, on positions whose
\* root has at most MaxRootMoves moves to try.
MaxIterations == 2
MaxRootMoves == 3

\* The transposition table: 2^TableBits slots, hashes below MaxHash, visit
\* counts recorded up to MaxVisits, at most MaxNodes nodes made between two
\* clears; a resident entry of fewer than ReplaceThreshold visits may be
\* evicted.  The handlers run at most MaxSearches searches in one game.
TableBits == 1
TableSize == 2 ^ TableBits
MaxHash == 4
MaxVisits == 2
MaxNodes == 3
ReplaceThreshold == 2
MaxSearches == 2

\* Rollouts start on boards with at most MaxRolloutEmpty empty cells.
MaxRolloutEmpty == 6

\* The selection is probed on nodes of up to MaxChildren children.
MaxChildren == 3

\* The answer of a search is one of the MaxAnswers lowest cells the
\* forced-move rule allows.
MaxAnswers == 2

Cells == 0..(BoardSize * BoardSize - 1)

\* ------------------------------------------------------------------------
\* uint64 word operations
\* ------------------------------------------------------------------------

\* bb >> k
Shr(bb, k) == {i - k : i \in {j \in bb : j >= k}}

\* bb << k (bits shifted past bit 63 are lost)
Shl(bb, k) == {i + k : i \in {j \in bb : j + k < BoardSize * BoardSize}}

\* ^bb
Not(bb) == Cells \ bb

FileA == {c \in Cells : c % BoardSize = 0}
FileB == Shl(FileA, 1)
FileC == Shl(FileA, 2)
FileF == Shl(FileA, 5)
FileG == Shl(FileA, 6)
FileH == {c \in Cells : c % BoardSize = 7}
Full == Cells

\* The 64-bit constant whose eight bytes all equal `byte` (0x7F7F..7F etc.).
ByteMask(byte) == {c \in Cells : (byte \div (2 ^ (c % BoardSize))) % 2 = 1}

\* ------------------------------------------------------------------------
\* Terminal detection (squava.go CheckWin / CheckLose)
\* ------------------------------------------------------------------------

\* CheckWin with the horizontal wrap mask of its second step left out.
CheckWin_NoRowMask(bb) ==
    LET h  == bb \cap Shr(bb, 1) \cap Not(FileH)
        v  == bb \cap Shr(bb, 8)
        d1 == bb \cap Shr(bb, 9) \cap Not(FileH)
        d2 == bb \cap Shr(bb, 7) \cap Not(FileA)
    IN  IF (h \cap Shr(h, 2)) # {} THEN TRUE
        ELSE IF (v \cap Shr(v, 16)) # {} THEN TRUE
        ELSE IF (d1 \cap Shr(d1, 18) \cap Not(FileH \cup Shr(FileH, 9))) # {} THEN TRUE
        ELSE IF (d2 \cap Shr(d2, 14) \cap Not(FileA \cup Shr(FileA, 7))) # {} THEN TRUE
        ELSE FALSE

CheckWin(bb) ==
    LET h  == bb \cap Shr(bb, 1) \cap Not(FileH)
        v  == bb \cap Shr(bb, 8)
        d1 == bb \cap Shr(bb, 9) \cap Not(FileH)
        d2 == bb \cap Shr(bb, 7) \cap Not(FileA)
    IN  IF (h \cap Shr(h, 2) \cap Not(FileH \cup Shr(FileH, 1))) # {} THEN TRUE
        ELSE IF (v \cap Shr(v, 16)) # {} THEN TRUE
        ELSE IF (d1 \cap Shr(d1, 18) \cap Not(FileH \cup Shr(FileH, 9))) # {} THEN TRUE
        ELSE IF (d2 \cap Shr(d2, 14) \cap Not(FileA \cup Shr(FileA, 7))) # {} THEN TRUE
        ELSE FALSE

\* CheckLose with the anti-diagonal direction left out.
CheckLose_NoAntiDiagonal(bb) ==
    LET h  == bb \cap Shr(bb, 1) \cap Not(FileH)
        v  == bb \cap Shr(bb, 8)
        d1 == bb \cap Shr(bb, 9) \cap Not(FileH)
    IN  IF (h \cap Shr(h, 1) \cap Not(FileH)) # {} THEN TRUE
        ELSE IF (v \cap Shr(v, 8)) # {} THEN TRUE
        ELSE IF (d1 \cap Shr(d1, 9) \cap Not(FileH)) # {} THEN TRUE
        ELSE FALSE

CheckLose(bb) ==
    LET h  == bb \cap Shr(bb, 1) \cap Not(FileH)
        v  == bb \cap Shr(bb, 8)
        d1 == bb \cap Shr(bb, 9) \cap Not(FileH)
        d2 == bb \cap Shr(bb, 7) \cap Not(FileA)
    IN  IF (h \cap Shr(h, 1) \cap Not(FileH)) # {} THEN TRUE
        ELSE IF (v \cap Shr(v, 8)) # {} THEN TRUE
        ELSE IF (d1 \cap Shr(d1, 9) \cap Not(FileH)) # {} THEN TRUE
        ELSE IF (d2 \cap Shr(d2, 7) \cap Not(FileA)) # {} THEN TRUE
        ELSE FALSE

\* ------------------------------------------------------------------------
\* Four-lane extractor (winslosses_amd64.s)
\* Lane order: 1 horizontal, 2 vertical, 3 diagonal, 4 anti-diagonal.
\* ------------------------------------------------------------------------

Lanes == 1..4
shifts1 == <<1, 8, 9, 7>>
shifts2 == <<2, 16, 18, 14>>
shifts3 == <<3, 24, 27, 21>>
maskR1 == <<ByteMask(127), ByteMask(255), ByteMask(127), ByteMask(254)>>
maskL1 == <<ByteMask(254), ByteMask(255), ByteMask(254), ByteMask(127)>>
maskR2 == <<ByteMask(63), ByteMask(255), ByteMask(63), ByteMask(252)>>
maskL2 == <<ByteMask(252), ByteMask(255), ByteMask(252), ByteMask(63)>>
maskR3 == <<ByteMask(31), ByteMask(255), ByteMask(31), ByteMask(248)>>
maskL3 == <<ByteMask(248), ByteMask(255), ByteMask(248), ByteMask(31)>>

\* Lane with maskR3 not applied (VPAND maskR3 left out).
Lane_NoMaskR3(b, e, n) ==
    LET r1 == Shr(b, shifts1[n]) \cap maskR1[n]
        l1 == Shl(b, shifts1[n]) \cap maskL1[n]
        r2 == Shr(b, shifts2[n]) \cap maskR2[n]
        l2 == Shl(b, shifts2[n]) \cap maskL2[n]
        r3 == Shr(b, shifts3[n])
        l3 == Shl(b, shifts3[n]) \cap maskL3[n]
    IN  [w |-> e \cap (((r1 \cap r2) \cap (r3 \cup l1)) \cup ((l1 \cap l2) \cap (r1 \cup l3))),
         l |-> e \cap (((r1 \cap r2) \cup (r1 \cap l1)) \cup (l1 \cap l2))]

\* The W lane and the L lane of one direction (Y10 and Y9 before the reduction).
Lane(b, e, n) ==
    LET r1 == Shr(b, shifts1[n]) \cap maskR1[n]
        l1 == Shl(b, shifts1[n]) \cap maskL1[n]
        r2 == Shr(b, shifts2[n]) \cap maskR2[n]
        l2 == Shl(b, shifts2[n]) \cap maskL2[n]
        r3 == Shr(b, shifts3[n]) \cap maskR3[n]
        l3 == Shl(b, shifts3[n]) \cap maskL3[n]
    IN  [w |-> e \cap (((r1 \cap r2) \cap (r3 \cup l1)) \cup ((l1 \cap l2) \cap (r1 \cup l3))),
         l |-> e \cap (((r1 \cap r2) \cup (r1 \cap l1)) \cup (l1 \cap l2))]

\* The extractor with the L lanes not ANDed with e (VPAND Y1, Y9 left out).
getWinsAndLossesAVX2_LNotEmpty(b, e) ==
    [w |-> UNION {Lane(b, e, n).w : n \in Lanes},
     l |-> UNION {Lane(b, Cells, n).l : n \in Lanes}]

getWinsAndLossesAVX2(b, e) ==
    [w |-> UNION {Lane(b, e, n).w : n \in Lanes},
     l |-> UNION {Lane(b, e, n).l : n \in Lanes}]

\* GetWinsAndLosses: the extractor followed by lose &= ^wins.
GetWinsAndLosses(bb, empty) ==
    LET r == getWinsAndLossesAVX2(bb, empty)
    IN  [w |-> r.w, l |-> r.l \ r.w]

\* ------------------------------------------------------------------------
\* Board, moves and the scalar threat scan (squava.go)
\* ------------------------------------------------------------------------

PlayerIDs == 0..2

\* Board{}: the three player bitboards and the occupancy mask.
EmptyBoard == [P |-> [p \in PlayerIDs |-> {}], Occupied |-> {}]

\* Move.ToIndex and MoveFromIndex
ToIndex(m) == m.r * 8 + m.c
MoveFromIndex(idx) == [r |-> idx \div 8, c |-> idx % 8]

\* Board.Set
Set(b, idx, pID) ==
    [P |-> [p \in PlayerIDs |-> IF p = pID THEN b.P[p] \cup {idx} ELSE b.P[p]],
     Occupied |-> b.Occupied \cup {idx}]

\* Board.GetPlayerBoard
GetPlayerBoard(b, pID) == IF pID \in PlayerIDs THEN b.P[pID] ELSE {}

\* bits.TrailingZeros64 of a nonzero word
TrailingZeros64(bb) == CHOOSE i \in bb : \A j \in bb : i <= j

\* ScanDirection with the gap patterns XX.X and X.XX left out.
ScanDirection_NoGapPatterns(myBB, d, r1, r2, r3, m3, m2, m1) ==
    (Shl(myBB \cap r1 \cap r2, 3 * d) \cap m3) \cup (r1 \cap r2 \cap r3)

\* The four gap patterns of one direction, from the three masked right shifts
\* and the three masks of the left shifts that carry a pattern to its gap.
ScanDirection(myBB, d, r1, r2, r3, m3, m2, m1) ==
    (Shl(myBB \cap r1 \cap r2, 3 * d) \cap m3)
    \cup (r1 \cap r2 \cap r3)
    \cup (Shl(myBB \cap r1 \cap r3, 2 * d) \cap m2)
    \cup (Shl(myBB \cap r2 \cap r3, d) \cap m1)

\* GetWinningMoves without the final AND with empty.
GetWinningMoves_NoEmptyMask(b, pID) ==
    LET myBB == GetPlayerBoard(b, pID)
        hor == ScanDirection(myBB, 1,
                   Shr(myBB, 1) \cap Not(FileH),
                   Shr(myBB, 2) \cap Not(FileH \cup FileG),
                   Shr(myBB, 3) \cap Not(FileH \cup FileG \cup FileF),
                   Not(FileA \cup FileB \cup FileC), Not(FileA \cup FileB), Not(FileA))
        ver == ScanDirection(myBB, 8, Shr(myBB, 8), Shr(myBB, 16), Shr(myBB, 24),
                   Full, Full, Full)
        dia == ScanDirection(myBB, 9,
                   Shr(myBB, 9) \cap Not(FileH),
                   Shr(myBB, 18) \cap Not(FileH \cup FileG),
                   Shr(myBB, 27) \cap Not(FileH \cup FileG \cup FileF),
                   Not(FileA \cup FileB \cup FileC), Not(FileA \cup FileB), Not(FileA))
        ant == ScanDirection(myBB, 7,
                   Shr(myBB, 7) \cap Not(FileA),
                   Shr(myBB, 14) \cap Not(FileA \cup FileB),
                   Shr(myBB, 21) \cap Not(FileA \cup FileB \cup FileC),
                   Not(FileH \cup FileG \cup FileF), Not(FileH \cup FileG), Not(FileH))
    IN  (hor \cup ver \cup dia \cup ant) \ myBB

GetWinningMoves(b, pID) ==
    LET myBB == GetPlayerBoard(b, pID)
        empty == Not(b.Occupied)
        hor == ScanDirection(myBB, 1,
                   Shr(myBB, 1) \cap Not(FileH),
                   Shr(myBB, 2) \cap Not(FileH \cup FileG),
                   Shr(myBB, 3) \cap Not(FileH \cup FileG \cup FileF),
                   Not(FileA \cup FileB \cup FileC), Not(FileA \cup FileB), Not(FileA))
        ver == ScanDirection(myBB, 8, Shr(myBB, 8), Shr(myBB, 16), Shr(myBB, 24),
                   Full, Full, Full)
        dia == ScanDirection(myBB, 9,
                   Shr(myBB, 9) \cap Not(FileH),
                   Shr(myBB, 18) \cap Not(FileH \cup FileG),
                   Shr(myBB, 27) \cap Not(FileH \cup FileG \cup FileF),
                   Not(FileA \cup FileB \cup FileC), Not(FileA \cup FileB), Not(FileA))
        ant == ScanDirection(myBB, 7,
                   Shr(myBB, 7) \cap Not(FileA),
                   Shr(myBB, 14) \cap Not(FileA \cup FileB),
                   Shr(myBB, 21) \cap Not(FileA \cup FileB \cup FileC),
                   Not(FileH \cup FileG \cup FileF), Not(FileH \cup FileG), Not(FileH))
    IN  (hor \cup ver \cup dia \cup ant) \cap empty

\* The board GetWinningMoves reads for a pair (stones, empty): the stones are
\* those of player 0, every other cell that is not empty holds a stone of
\* player 1.
ProbeBoard(stones, empty) ==
    [P |-> [p \in PlayerIDs |-> IF p = 0 THEN stones
                                ELSE IF p = 1 THEN Cells \ (empty \cup stones)
                                ELSE {}],
     Occupied |-> Cells \ empty]

\* The patterns of one direction truncated to length three: XX., .XX, X.X
ScanDirection3(myBB, d, r1, r2, m2, m1) ==
    (Shl(myBB \cap r1, 2 * d) \cap m2)
    \cup (r1 \cap r2)
    \cup (Shl(myBB \cap r2, d) \cap m1)

\* The scalar path behind getWinsAndLossesAVX2 where there are no vector
\* registers: the win mask by the enumeration of GetWinningMoves, the lose
\* mask by the same enumeration truncated to length three.
getWinsAndLossesGo(b, e) ==
    LET hor == ScanDirection3(b, 1,
                   Shr(b, 1) \cap Not(FileH), Shr(b, 2) \cap Not(FileH \cup FileG),
                   Not(FileA \cup FileB), Not(FileA))
        ver == ScanDirection3(b, 8, Shr(b, 8), Shr(b, 16), Full, Full)
        dia == ScanDirection3(b, 9,
                   Shr(b, 9) \cap Not(FileH), Shr(b, 18) \cap Not(FileH \cup FileG),
                   Not(FileA \cup FileB), Not(FileA))
        ant == ScanDirection3(b, 7,
                   Shr(b, 7) \cap Not(FileA), Shr(b, 14) \cap Not(FileA \cup FileB),
                   Not(FileH \cup FileG), Not(FileH))
    IN  [w |-> GetWinningMoves(ProbeBoard(b, e), 0),
         l |-> (hor \cup ver \cup dia \cup ant) \cap e]

\* The moves of a mask in ascending cell order (the TrailingZeros64 loop).
RECURSIVE MovesOf(_)
MovesOf(bb) ==
    IF bb = {} THEN <<>>
    ELSE LET idx == TrailingZeros64(bb)
         IN  <<MoveFromIndex(idx)>> \o MovesOf(bb \ {idx})

\* nil: no restriction.  The callers read the result through len() only, and
\* the slice returned otherwise is never empty.
Nil == <<>>

\* GetValidMoves with the next player's threats ignored when they are nonzero.
GetValidMoves_OwnWinsOnly(b, currentPID, nextPID) ==
    LET threats == GetWinningMoves(b, nextPID)
        myWins == GetWinningMoves(b, currentPID)
    IN  IF threats = {} THEN Nil ELSE MovesOf(myWins)

\* GetValidMoves that also looks at the player after the next one.
GetValidMoves_AnyThreat(b, currentPID, nextPID) ==
    LET others == UNION {GetWinningMoves(b, p) : p \in PlayerIDs \ {currentPID}}
        myWins == GetWinningMoves(b, currentPID)
    IN  IF others = {} THEN Nil ELSE MovesOf(others \cup myWins)

GetValidMoves(b, currentPID, nextPID) ==
    LET threats == GetWinningMoves(b, nextPID)
        myWins == GetWinningMoves(b, currentPID)
    IN  IF threats = {} THEN Nil ELSE MovesOf(threats \cup myWins)

\* ------------------------------------------------------------------------
\* One simulated move (squava.go SimulateStep): players is the list of the
\* ids still in the game, in clockwise order.
\* ------------------------------------------------------------------------

\* Index (from 0) of the first occurrence of id in the list, 0 when absent.
IndexOf(players, id) ==
    IF \E i \in 1..Len(players) : players[i] = id
    THEN (CHOOSE i \in 1..Len(players) :
              players[i] = id /\ \A j \in 1..(i - 1) : players[j] # id) - 1
    ELSE 0

\* append(players[:pIdx], players[pIdx+1:]...)
RemoveAt(players, pIdx) ==
    [i \in 1..(Len(players) - 1) |-> IF i <= pIdx THEN players[i] ELSE players[i + 1]]

\* SimulateStep that, after an elimination, steps one further in the list.
SimulateStep_NextAfterRemoval(board, players, currentID, move) ==
    LET newBoard == Set(board, ToIndex(move), currentID)
        pIdx == IndexOf(players, currentID)
        removed == RemoveAt(players, pIdx)
    IN  IF CheckWin(GetPlayerBoard(newBoard, currentID))
        THEN [board |-> newBoard, nextPlayerID |-> -1,
              remainingPlayers |-> players, winnerID |-> currentID]
        ELSE IF CheckLose(GetPlayerBoard(newBoard, currentID))
        THEN IF Len(removed) = 1
             THEN [board |-> newBoard, nextPlayerID |-> -1,
                   remainingPlayers |-> removed, winnerID |-> removed[1]]
             ELSE [board |-> newBoard,
                   nextPlayerID |-> removed[((pIdx + 1) % Len(removed)) + 1],
                   remainingPlayers |-> removed, winnerID |-> -1]
        ELSE [board |-> newBoard,
              nextPlayerID |-> players[((pIdx + 1) % Len(players)) + 1],
              remainingPlayers |-> players, winnerID |-> -1]

\* SimulateStep without the return for a single remaining player.
SimulateStep_NoLastStanding(board, players, currentID, move) ==
    LET newBoard == Set(board, ToIndex(move), currentID)
        pIdx == IndexOf(players, currentID)
        removed == RemoveAt(players, pIdx)
    IN  IF CheckWin(GetPlayerBoard(newBoard, currentID))
        THEN [board |-> newBoard, nextPlayerID |-> -1,
              remainingPlayers |-> players, winnerID |-> currentID]
        ELSE IF CheckLose(GetPlayerBoard(newBoard, currentID))
        THEN [board |-> newBoard,
              nextPlayerID |-> removed[(IF pIdx >= Len(removed) THEN 0 ELSE pIdx) + 1],
              remainingPlayers |-> removed, winnerID |-> -1]
        ELSE [board |-> newBoard,
              nextPlayerID |-> players[((pIdx + 1) % Len(players)) + 1],
              remainingPlayers |-> players, winnerID |-> -1]

\* SimulateStep that names the eliminated mover the winner when one player
\* is left.
SimulateStep_EliminatedWins(board, players, currentID, move) ==
    LET newBoard == Set(board, ToIndex(move), currentID)
        pIdx == IndexOf(players, currentID)
        removed == RemoveAt(players, pIdx)
    IN  IF CheckWin(GetPlayerBoard(newBoard, currentID))
        THEN [board |-> newBoard, nextPlayerID |-> -1,
              remainingPlayers |-> players, winnerID |-> currentID]
        ELSE IF CheckLose(GetPlayerBoard(newBoard, currentID))
        THEN IF Len(removed) = 1
             THEN [board |-> newBoard, nextPlayerID |-> -1,
                   remainingPlayers |-> removed, winnerID |-> currentID]
             ELSE [board |-> newBoard,
                   nextPlayerID |-> removed[(IF pIdx >= Len(removed) THEN 0 ELSE pIdx) + 1],
                   remainingPlayers |-> removed, winnerID |-> -1]
        ELSE [board |-> newBoard,
              nextPlayerID |-> players[((pIdx + 1) % Len(players)) + 1],
              remainingPlayers |-> players, winnerID |-> -1]

\* SimulateStep that tests CheckLose before CheckWin.
SimulateStep_LoseFirst(board, players, currentID, move) ==
    LET newBoard == Set(board, ToIndex(move), currentID)
        pIdx == IndexOf(players, currentID)
        removed == RemoveAt(players, pIdx)
    IN  IF CheckLose(GetPlayerBoard(newBoard, currentID))
        THEN IF Len(removed) = 1
             THEN [board |-> newBoard, nextPlayerID |-> -1,
                   remainingPlayers |-> removed, winnerID |-> removed[1]]
             ELSE [board |-> newBoard,
                   nextPlayerID |-> removed[(IF pIdx >= Len(removed) THEN 0 ELSE pIdx) + 1],
                   remainingPlayers |-> removed, winnerID |-> -1]
        ELSE IF CheckWin(GetPlayerBoard(newBoard, currentID))
        THEN [board |-> newBoard, nextPlayerID |-> -1,
              remainingPlayers |-> players, winnerID |-> currentID]
        ELSE [board |-> newBoard,
              nextPlayerID |-> players[((pIdx + 1) % Len(players)) + 1],
              remainingPlayers |-> players, winnerID |-> -1]

\* SimulateStep that, after a move without a run, passes the turn to
\* players[pIdx%len] (the mover again).
SimulateStep_SameMover(board, players, currentID, move) ==
    LET newBoard == Set(board, ToIndex(move), currentID)
        pIdx == IndexOf(players, currentID)
        removed == RemoveAt(players, pIdx)
    IN  IF CheckWin(GetPlayerBoard(newBoard, currentID))
        THEN [board |-> newBoard, nextPlayerID |-> -1,
              remainingPlayers |-> players, winnerID |-> currentID]
        ELSE IF CheckLose(GetPlayerBoard(newBoard, currentID))
        THEN IF Len(removed) = 1
             THEN [board |-> newBoard, nextPlayerID |-> -1,
                   remainingPlayers |-> removed, winnerID |-> removed[1]]
             ELSE [board |-> newBoard,
                   nextPlayerID |-> removed[(IF pIdx >= Len(removed) THEN 0 ELSE pIdx) + 1],
                   remainingPlayers |-> removed, winnerID |-> -1]
        ELSE [board |-> newBoard,
              nextPlayerID |-> players[(pIdx % Len(players)) + 1],
              remainingPlayers |-> players, winnerID |-> -1]

SimulateStep(board, players, currentID, move) ==
    LET newBoard == Set(board, ToIndex(move), currentID)
        pIdx == IndexOf(players, currentID)
        removed == RemoveAt(players, pIdx)
    IN  IF CheckWin(GetPlayerBoard(newBoard, currentID))
        THEN [board |-> newBoard, nextPlayerID |-> -1,
              remainingPlayers |-> players, winnerID |-> currentID]
        ELSE IF CheckLose(GetPlayerBoard(newBoard, currentID))
        THEN IF Len(removed) = 1
             THEN [board |-> newBoard, nextPlayerID |-> -1,
                   remainingPlayers |-> removed, winnerID |-> removed[1]]
             ELSE [board |-> newBoard,
                   nextPlayerID |-> removed[(IF pIdx >= Len(removed) THEN 0 ELSE pIdx) + 1],
                   remainingPlayers |-> removed, winnerID |-> -1]
        ELSE [board |-> newBoard,
              nextPlayerID |-> players[((pIdx + 1) % Len(players)) + 1],
              remainingPlayers |-> players, winnerID |-> -1]

\* ------------------------------------------------------------------------
\* GameState: Board, PlayerID, ActiveMask (bit i set iff player i is active),
\* Hash and WinnerID.  The handlers of main_wasm.go work on currentGS.
\* ------------------------------------------------------------------------

\* Bit p of the uint8 mask.
Active(mask, p) == (mask \div (2 ^ p)) % 2 = 1

\* GameState.ActiveIDs: the ids of the set bits, ascending.
ActiveIDs(mask) ==
    LET ids == {p \in PlayerIDs : Active(mask, p)}
        Below(p) == Cardinality({q \in ids : q < p})
    IN  [i \in 1..Cardinality(ids) |-> CHOOSE p \in ids : Below(p) = i - 1]

\* The mask with exactly the bits of the listed ids set.
MaskOf(players) ==
    LET Has(p) == \E i \in 1..Len(players) : players[i] = p
    IN  (IF Has(0) THEN 1 ELSE 0) + (IF Has(1) THEN 2 ELSE 0) + (IF Has(2) THEN 4 ELSE 0)

\* A 64-bit Zobrist word is modelled as the set of the keys XORed into it an
\* odd number of times; XOR is the symmetric difference.
Xor(h, keys) == (h \ keys) \cup (keys \ h)
TurnKey(turnIdx) == <<"turn", turnIdx>>
ActiveKey(mask) == <<"active", mask>>
CellKey(idx, pID) == <<"cell", idx, pID>>

\* ZobristHash without the turn key.
ZobristHash_NoTurnKey(b, turnIdx, mask) ==
    {ActiveKey(mask)}
    \cup {CellKey(idx, p) : <<idx, p>> \in {x \in Cells \X PlayerIDs : x[1] \in b.P[x[2]]}}

ZobristHash(b, turnIdx, mask) ==
    {TurnKey(turnIdx), ActiveKey(mask)}
    \cup {CellKey(idx, p) : <<idx, p>> \in {x \in Cells \X PlayerIDs : x[1] \in b.P[x[2]]}}

\* The loop of the handlers: index of PlayerID among the active ids, 0 when
\* it is not among them.
TurnIdxOf(g) == IndexOf(ActiveIDs(g.ActiveMask), g.PlayerID)

NewGameState(b, playerID, mask) ==
    [Board |-> b, PlayerID |-> playerID, ActiveMask |-> mask,
     Hash |-> ZobristHash(b, IndexOf(ActiveIDs(mask), playerID), mask),
     WinnerID |-> -1]

\* GetForcedMoves: 0 when the next active player has no winning cell,
\* otherwise that player's winning cells | the mover's winning cells.
GetForcedMoves(b, players, turnIdx) ==
    LET empty == Not(b.Occupied)
        nextID == players[((turnIdx + 1) % Len(players)) + 1]
        threats == GetWinsAndLosses(b.P[nextID], empty).w
        myWins == GetWinsAndLosses(b.P[players[turnIdx + 1]], empty).w
    IN  IF threats = {} THEN {} ELSE threats \cup myWins

\* ApplyMove that leaves the previous turn key in the hash.
ApplyMove_StaleTurnKey(g, move) ==
    LET st == SimulateStep(g.Board, ActiveIDs(g.ActiveMask), g.PlayerID, move)
        mask == MaskOf(st.remainingPlayers)
        turn == IndexOf(st.remainingPlayers, st.nextPlayerID)
        h1 == Xor(g.Hash, {ActiveKey(g.ActiveMask)})
        h2 == Xor(h1, {CellKey(ToIndex(move), g.PlayerID)})
    IN  [Board |-> st.board, PlayerID |-> st.nextPlayerID, ActiveMask |-> mask,
         Hash |-> Xor(h2, {TurnKey(turn), ActiveKey(mask)}),
         WinnerID |-> st.winnerID]

\* GameState.ApplyMove: the transition of SimulateStep on the active ids,
\* with the hash maintained incrementally.
ApplyMove(g, move) ==
    LET st == SimulateStep(g.Board, ActiveIDs(g.ActiveMask), g.PlayerID, move)
        mask == MaskOf(st.remainingPlayers)
        turn == IndexOf(st.remainingPlayers, st.nextPlayerID)
        h1 == Xor(g.Hash, {TurnKey(TurnIdxOf(g)), ActiveKey(g.ActiveMask)})
        h2 == Xor(h1, {CellKey(ToIndex(move), g.PlayerID)})
    IN  [Board |-> st.board, PlayerID |-> st.nextPlayerID, ActiveMask |-> mask,
         Hash |-> Xor(h2, {TurnKey(turn), ActiveKey(mask)}),
         WinnerID |-> st.winnerID]

\* GameState.IsTerminal
IsTerminal(g) ==
    IF g.WinnerID >= 0 THEN <<g.WinnerID, TRUE>>
    ELSE IF g.Board.Occupied = Full THEN <<-1, TRUE>>
    ELSE <<-1, FALSE>>

\* ------------------------------------------------------------------------
\* Reference geometry used to state the properties: the runs of n cells
\* (r + k*dr, c + k*dc), k = 0..n-1, that lie wholly on the board.
\* ------------------------------------------------------------------------

Directions == {<<0, 1>>, <<1, 0>>, <<1, 1>>, <<1, -1>>}

Runs(n) ==
    LET last(x, d) == x + (n - 1) * d
        starts == {s \in (0..(BoardSize - 1)) \X (0..(BoardSize - 1)) \X Directions :
                      /\ last(s[1], s[3][1]) \in 0..(BoardSize - 1)
                      /\ last(s[2], s[3][2]) \in 0..(BoardSize - 1)}
    IN  {{(s[1] + k * s[3][1]) * BoardSize + (s[2] + k * s[3][2]) : k \in 0..(n - 1)} :
            s \in starts}

Runs4 == Runs(WinLength)
Runs3 == Runs(LoseLength)

\* Some run of the given family lies inside bb.
HasRun(runs, bb) == \E W \in runs : W \subseteq bb

\* The cells outside bb that complete a run of the family: the run contains
\* the cell and all its other cells are in bb.
Completes(runs, bb) == UNION {W \ bb : W \in {V \in runs : Cardinality(V \ bb) = 1}}

\* ------------------------------------------------------------------------
\* Probe board: the pure functions applied to bounded inputs
\* ------------------------------------------------------------------------

VARIABLES
    pb,     \* probe inputs: [stones, empty, chain]
    out,    \* results of the last probe, or NoOut while the inputs change
    gs,     \* currentGS of main_wasm.go
    ret,    \* the last handler call: [op, idx, ok, forced, prev]
    track,  \* the scripted games the caller is still following
    rg,     \* the SquavaGame of squava.go's Run: [board, players, turnIdx, result, turn]
    sim,    \* the State of TestSimulationLogic: a board set up, then SimulateStep
    mc,     \* one GetMoveWithContext call: its nodes, its iteration count, its result
    tt,     \* the transposition table: its slots and the node handed out last
    ro      \* one RunSimulation call: its locals, its result, its latest ply

NoOut == [done |-> FALSE]

\* Stones are drawn from the first WinLength rows: the smallest band of the
\* board that holds a run of every direction and every row-edge wrap.
ProbeCells == {c \in Cells : c \div BoardSize < WinLength}

\* Cells that hold a foreign stone on the probe board (neither the player's
\* stones nor empty): none, one colour of the checkerboard, or files D and H.
ForeignPatterns ==
    {{}, {c \in Cells : ((c \div BoardSize) + (c % BoardSize)) % 2 = 1},
         {c \in Cells : c % WinLength = WinLength - 1}}

\* c is one stride (1, 7, 8 or 9 bit positions) away from a stone, as the
\* shifts see it: row-edge wraps count.
Adjacent(c, stones) == \E s \in stones : \E d \in {1, 7, 8, 9} : c = s + d \/ s = c + d

vars == <<pb, out, gs, ret, track, rg, sim, mc, tt, ro>>

\* ------------------------------------------------------------------------
\* The caller of the handlers.  It plays freely on a small corner of the
\* board, and it replays scripted games cell by cell: each is a whole legal
\* game from the new game, so every state along it is one the program
\* reaches.  Beside the scripted cell it also tries the cell played last and
\* the cells scripted next.
\* ------------------------------------------------------------------------

FreeCells == {0, 1, 2, 8, 9, 10, 16, 17}

\* A game won by four-in-a-row on move 26
LineFourInARow ==
    <<15, 43, 46, 30, 40, 29, 9, 48, 50, 31, 7, 33, 25, 60, 24, 11,
      20, 62, 21, 36, 26, 2, 44, 27, 52, 28>>

\* A game that fills the board with all three players active
LineDrawThree ==
    <<50, 37, 56, 2, 31, 16, 52, 58, 27, 29, 48, 12, 26, 43, 57, 59,
      63, 28, 6, 38, 62, 46, 8, 14, 54, 40, 39, 60, 1, 55, 3, 17,
      44, 34, 35, 42, 36, 11, 41, 19, 0, 18, 23, 21, 24, 30, 15, 25,
      47, 13, 4, 10, 20, 51, 49, 33, 45, 5, 53, 22, 9, 61, 7, 32>>

\* A game that fills the board, the 64th move eliminating its mover and leaving two
LineDrawTwo ==
    <<17, 37, 56, 53, 50, 4, 18, 8, 35, 59, 32, 36, 52, 28, 15, 7,
      44, 1, 38, 43, 45, 46, 25, 21, 10, 39, 2, 0, 3, 5, 34, 55,
      26, 41, 63, 9, 47, 40, 51, 23, 33, 29, 57, 13, 60, 42, 22, 11,
      20, 61, 19, 12, 27, 24, 31, 58, 62, 14, 54, 49, 6, 16, 48, 30>>

\* A game whose 64th move eliminates its mover and leaves one player
LineLastStanding ==
    <<38, 15, 22, 6, 37, 44, 42, 58, 45, 5, 18, 17, 1, 21, 33, 9,
      26, 54, 10, 7, 2, 0, 39, 47, 59, 46, 20, 24, 43, 53, 57, 31,
      8, 23, 16, 14, 27, 40, 41, 25, 62, 60, 36, 11, 13, 30, 52, 3,
      61, 50, 32, 29, 35, 28, 48, 12, 56, 49, 63, 19, 55, 34, 51, 4>>

\* A game whose 64th move completes a four-in-a-row
LineFullBoardFour ==
    <<32, 17, 60, 1, 28, 40, 19, 38, 3, 22, 10, 37, 16, 61, 18, 23,
      12, 2, 58, 56, 30, 13, 52, 46, 45, 0, 50, 53, 7, 15, 39, 44,
      57, 36, 33, 54, 11, 47, 41, 20, 9, 21, 25, 63, 27, 35, 26, 6,
      42, 5, 31, 55, 49, 8, 59, 4, 14, 48, 34, 24, 43, 62, 51, 29>>

\* A game in which P0 is eliminated on move 7, P1 and P2 play on, and P1 is
\* eliminated on move 12
LineEliminations ==
    <<0, 8, 16, 1, 9, 17, 2, 40, 48, 41, 56, 10>>

\* A game in which, before move 16, the mover P0 can complete a four-run on
\* cell 19 while the next player P1 threatens one on cell 42
LineRacingThreats ==
    <<24, 40, 56, 25, 41, 5, 3, 62, 58, 11, 15, 7, 27, 43, 26, 19>>

\* A game in which move 9 is P2's block of the only winning cell of P0, cell 26
LineSingleBlock ==
    <<24, 40, 56, 25, 41, 5, 27, 62, 26>>

Lines == <<LineFourInARow, LineDrawThree, LineDrawTwo, LineLastStanding, LineFullBoardFour,
           LineEliminations, LineRacingThreats, LineSingleBlock>>

Stones(g) == Cardinality(g.Board.Occupied)

\* The cells the caller offers on board b.
InputsOn(b) ==
    LET n == Cardinality(b.Occupied)
    IN  (IF n < MaxFreeStones /\ b.Occupied \subseteq FreeCells THEN FreeCells ELSE {})
        \cup {Lines[x[1]][x[2]] :
                x \in {y \in track \X (n..(n + MaxAhead)) :
                          y[2] >= 1 /\ y[2] <= Len(Lines[y[1]])}}

\* The scripted games that go on with cell idx on board b.
Follow(b, idx) ==
    {k \in track : Len(Lines[k]) > Cardinality(b.Occupied)
                   /\ Lines[k][Cardinality(b.Occupied) + 1] = idx}

NewGame == NewGameState(EmptyBoard, 0, 7)

\* NewSquavaGame and the three AddPlayer calls of main
NoTurn == [mover |-> -1, next |-> -1, forcedMoves |-> Nil, board |-> EmptyBoard,
           players |-> <<0, 1, 2>>, idx |-> -1]
NewSquavaGame ==
    [board |-> EmptyBoard, players |-> <<0, 1, 2>>, turnIdx |-> 0,
     result |-> "running", turn |-> NoTurn]

\* board := Board{} of TestSimulationLogic, before any Set
NoStep == [board |-> EmptyBoard, players |-> <<0, 1, 2>>, currentID |-> -1, idx |-> -1]
NewSim ==
    [board |-> EmptyBoard, remainingPlayers |-> <<0, 1, 2>>, nextPlayerID |-> -1,
     winnerID |-> -1, steps |-> 0, prev |-> NoStep]

\* No GetMoveWithContext call in progress
NoSearch == [phase |-> "idle"]

\* No RunSimulation call in progress
NoRollout == [phase |-> "idle"]

\* The transposition table after construction and after Clear: every slot
\* empty, no node made.  last is the record of the latest operation: its
\* arguments, the node it returned, and the slots it found.
EmptySlot == [hash |-> -1, node |-> 0, visits |-> 0]
EmptySlots == [i \in 0..(TableSize - 1) |-> EmptySlot]
NewTable ==
    [slots |-> EmptySlots, made |-> 0,
     last |-> [op |-> "clear", hash |-> -1, stale |-> FALSE, visits |-> 0, node |-> 0,
               before |-> EmptySlots]]

Hashes == 0..(MaxHash - 1)

\* The slot probed for a hash
SlotOf(hash) == hash % TableSize

\* get_or_insert that returns the resident of the probed slot whatever its hash.
GetOrInsert_SlotOnlyMatch(table, hash, stale) ==
    LET slot == SlotOf(hash)
        e == table.slots[slot]
        fresh == table.made + 1
        did(node) == [op |-> "getOrInsert", hash |-> hash, stale |-> stale, visits |-> 0,
                      node |-> node, before |-> table.slots]
    IN  IF e.hash # -1
        THEN [table EXCEPT !.last = did(e.node)]
        ELSE [slots |-> [table.slots EXCEPT ![slot] =
                             [hash |-> hash, node |-> fresh, visits |-> 0]],
              made |-> fresh, last |-> did(fresh)]

\* get_or_insert that evicts every stale resident on a collision.
GetOrInsert_EvictAnyStale(table, hash, stale) ==
    LET slot == SlotOf(hash)
        e == table.slots[slot]
        fresh == table.made + 1
        did(node) == [op |-> "getOrInsert", hash |-> hash, stale |-> stale, visits |-> 0,
                      node |-> node, before |-> table.slots]
    IN  IF e.hash = hash
        THEN [table EXCEPT !.last = did(e.node)]
        ELSE IF e.hash = -1 \/ stale
        THEN [slots |-> [table.slots EXCEPT ![slot] =
                             [hash |-> hash, node |-> fresh, visits |-> 0]],
              made |-> fresh, last |-> did(fresh)]
        ELSE [table EXCEPT !.made = fresh, !.last = did(fresh)]

\* get_or_insert(hash, make): the resident node on a matching hash; a new
\* node installed with visit count 0 in an empty slot; on a collision the new
\* node replaces a resident that is stale and has fewer visits than the
\* threshold, and is a scratch node, kept out of the table, otherwise.
\* Nodes are numbered in the order make() is called; stale is the staleness
\* of the resident, an input.
GetOrInsert(table, hash, stale) ==
    LET slot == SlotOf(hash)
        e == table.slots[slot]
        fresh == table.made + 1
        did(node) == [op |-> "getOrInsert", hash |-> hash, stale |-> stale, visits |-> 0,
                      node |-> node, before |-> table.slots]
    IN  IF e.hash = hash
        THEN [table EXCEPT !.last = did(e.node)]
        ELSE IF e.hash = -1 \/ (stale /\ e.visits < ReplaceThreshold)
        THEN [slots |-> [table.slots EXCEPT ![slot] =
                             [hash |-> hash, node |-> fresh, visits |-> 0]],
              made |-> fresh, last |-> did(fresh)]
        ELSE [table EXCEPT !.made = fresh, !.last = did(fresh)]

\* Whether get_or_insert(hash) calls make()
Makes(table, hash) == table.slots[SlotOf(hash)].hash # hash

\* record_visit(hash, visits): the visit count of the entry of hash, never lowered
RecordVisit(table, hash, visits) ==
    LET slot == SlotOf(hash)
        e == table.slots[slot]
        did == [op |-> "recordVisit", hash |-> hash, stale |-> FALSE, visits |-> visits,
                node |-> 0, before |-> table.slots]
    IN  IF e.hash = hash /\ visits > e.visits
        THEN [table EXCEPT !.slots[slot].visits = visits, !.last = did]
        ELSE [table EXCEPT !.last = did]

Init ==
    /\ pb = [stones |-> {}, empty |-> Cells, chain |-> TRUE]
    /\ out = NoOut
    /\ gs = NewGame
    /\ ret = [op |-> "newGame", idx |-> -1, ok |-> TRUE, forced |-> {}, prev |-> NewGame]
    /\ track = 1..Len(Lines)
    /\ rg = NewSquavaGame
    /\ sim = NewSim
    /\ mc = NoSearch
    /\ tt = NewTable
    /\ ro = NoRollout

\* newGame without the call of Clear.
newGame_KeepsTable ==
    /\ gs' = NewGame
    /\ ret' = [op |-> "newGame", idx |-> -1, ok |-> TRUE, forced |-> {}, prev |-> NewGame]
    /\ track' = 1..Len(Lines)
    /\ UNCHANGED <<pb, out, rg, sim, mc, tt, ro>>

\* newGame (the seed is not part of this state)
newGame ==
    /\ tt' = NewTable
    /\ gs' = NewGame
    /\ ret' = [op |-> "newGame", idx |-> -1, ok |-> TRUE, forced |-> {}, prev |-> NewGame]
    /\ track' = 1..Len(Lines)
    /\ UNCHANGED <<pb, out, rg, sim, mc, ro>>

Rejected(idx) == [op |-> "applyMove", idx |-> idx, ok |-> FALSE, forced |-> {}, prev |-> gs]
Accepted(idx) == [op |-> "applyMove", idx |-> idx, ok |-> TRUE, forced |-> {}, prev |-> gs]

\* applyMove without the test of Occupied.
applyMove_NoOccupiedCheck(idx) ==
    LET forced == GetForcedMoves(gs.Board, ActiveIDs(gs.ActiveMask), TurnIdxOf(gs))
    IN  IF forced # {} /\ forced \cap {idx} = {}
        THEN /\ ret' = Rejected(idx)
             /\ UNCHANGED <<gs, track, pb, out, rg, sim, mc, tt, ro>>
        ELSE /\ gs' = ApplyMove(gs, MoveFromIndex(idx))
             /\ ret' = Accepted(idx)
             /\ track' = Follow(gs.Board, idx)
             /\ UNCHANGED <<pb, out, rg, sim, mc, tt, ro>>

\* applyMove without the forced-move check.
applyMove_NoForcedCheck(idx) ==
    IF gs.Board.Occupied \cap {idx} # {}
    THEN /\ ret' = Rejected(idx)
         /\ UNCHANGED <<gs, track, pb, out, rg, sim, mc, tt, ro>>
    ELSE /\ gs' = ApplyMove(gs, MoveFromIndex(idx))
         /\ ret' = Accepted(idx)
         /\ track' = Follow(gs.Board, idx)
         /\ UNCHANGED <<pb, out, rg, sim, mc, tt, ro>>

\* applyMove(idx): false for an occupied cell and for a cell outside a
\* nonempty forced set; every other call runs ApplyMove and returns the hash.
applyMove(idx) ==
    LET activeIDs == ActiveIDs(gs.ActiveMask)
        turnIdx == TurnIdxOf(gs)
        forced == GetForcedMoves(gs.Board, activeIDs, turnIdx)
    IN  IF gs.Board.Occupied \cap {idx} # {}
        THEN /\ ret' = Rejected(idx)
             /\ UNCHANGED <<gs, track, pb, out, rg, sim, mc, tt, ro>>
        ELSE IF forced # {} /\ forced \cap {idx} = {}
        THEN /\ ret' = Rejected(idx)
             /\ UNCHANGED <<gs, track, pb, out, rg, sim, mc, tt, ro>>
        ELSE /\ gs' = ApplyMove(gs, MoveFromIndex(idx))
             /\ ret' = Accepted(idx)
             /\ track' = Follow(gs.Board, idx)
             /\ UNCHANGED <<pb, out, rg, sim, mc, tt, ro>>

getForcedMoves ==
    /\ ret' = [op |-> "getForcedMoves", idx |-> -1, ok |-> TRUE,
               forced |-> GetForcedMoves(gs.Board, ActiveIDs(gs.ActiveMask), TurnIdxOf(gs)),
               prev |-> gs]
    /\ UNCHANGED <<gs, track, pb, out, rg, sim, mc, tt, ro>>

\* A call that passes both tests of applyMove after the game has ended.
BeyondEnd(idx) ==
    /\ IsTerminal(gs)[2]
    /\ gs.Board.Occupied \cap {idx} = {}
    /\ \E forced \in {GetForcedMoves(gs.Board, ActiveIDs(gs.ActiveMask), TurnIdxOf(gs))} :
           forced = {} \/ idx \in forced

\* The games are followed up to their end: like the loop of Run, the caller
\* sends no cell that applyMove would play on a terminal state.
Next ==
    \/ newGame
    \/ \E idx \in InputsOn(gs.Board) : ~BeyondEnd(idx) /\ applyMove(idx)
    \/ getForcedMoves

\* The cells the page sends once the game has ended (the worker passes every
\* APPLY_MOVE on): the cells of free play and the lowest empty cells.
MaxEndCells == 2
EndInputs(g) ==
    IF IsTerminal(g)[2]
    THEN FreeCells \cup {c \in Not(g.Board.Occupied) :
                            Cardinality({d \in Not(g.Board.Occupied) : d < c}) < MaxEndCells}
    ELSE {}

\* The handlers with a caller that goes on after the end of a game.
NextEnd ==
    \/ newGame
    \/ \E idx \in InputsOn(gs.Board) \cup EndInputs(gs) : applyMove(idx)
    \/ getForcedMoves

SpecEnd == Init /\ [][NextEnd]_vars

Spec == Init /\ [][Next]_vars

\* ------------------------------------------------------------------------
\* SquavaGame.Run of squava.go, one action per iteration of its loop.
\* ------------------------------------------------------------------------

\* The checks at the top of the loop once fewer than two players are left.
RunCheckPlayers ==
    /\ rg.result = "running"
    /\ Len(rg.players) <= 1
    /\ rg' = [rg EXCEPT !.result = IF Len(rg.players) = 0 THEN "allEliminated"
                                   ELSE "lastStanding"]
    /\ UNCHANGED <<pb, out, gs, ret, track, sim, mc, tt, ro>>

\* One turn.  HumanPlayer.GetMove returns only an empty cell that is in
\* forcedMoves when len(forcedMoves) > 0; it asks again otherwise.
RunTurn(idx) ==
    LET currentPlayer == rg.players[rg.turnIdx + 1]
        nextPlayerIdx == (rg.turnIdx + 1) % Len(rg.players)
        nextPlayer == rg.players[nextPlayerIdx + 1]
        forcedMoves == GetValidMoves(rg.board, currentPlayer, nextPlayer)
        move == MoveFromIndex(idx)
        board == Set(rg.board, ToIndex(move), currentPlayer)
        players == RemoveAt(rg.players, rg.turnIdx)
        turn == [mover |-> currentPlayer, next |-> nextPlayer, forcedMoves |-> forcedMoves,
                 board |-> rg.board, players |-> rg.players, idx |-> idx]
    IN  /\ rg.result = "running"
        /\ Len(rg.players) >= 2
        /\ idx \notin rg.board.Occupied
        /\ Len(forcedMoves) > 0 => \E i \in 1..Len(forcedMoves) : forcedMoves[i] = move
        /\ rg' =
             IF CheckWin(GetPlayerBoard(board, currentPlayer))
             THEN [rg EXCEPT !.board = board, !.result = "fourInARow", !.turn = turn]
             ELSE IF CheckLose(GetPlayerBoard(board, currentPlayer))
             THEN [board |-> board, players |-> players,
                   turnIdx |-> IF rg.turnIdx >= Len(players) THEN 0 ELSE rg.turnIdx,
                   result |-> IF board.Occupied = Full THEN "drawRemaining" ELSE "running",
                   turn |-> turn]
             ELSE IF board.Occupied = Full
             THEN [rg EXCEPT !.board = board, !.result = "draw", !.turn = turn]
             ELSE [rg EXCEPT !.board = board, !.turn = turn,
                             !.turnIdx = (rg.turnIdx + 1) % Len(rg.players)]
        /\ track' = Follow(rg.board, idx)
        /\ UNCHANGED <<pb, out, gs, ret, sim, mc, tt, ro>>

NextRun ==
    \/ RunCheckPlayers
    \/ \E idx \in InputsOn(rg.board) : RunTurn(idx)

SpecRun == Init /\ [][NextRun]_vars

\* A process is either the page's engine (main of main_wasm.go registers the
\* handlers) or the command-line game (main of squava.go calls Run): the
\* handlers are served only while Run has not begun, and Run plays only while
\* no handler has left a trace.
NextGame ==
    \/ rg = NewSquavaGame /\ newGame
    \/ rg = NewSquavaGame /\ \E idx \in InputsOn(gs.Board) : ~BeyondEnd(idx) /\ applyMove(idx)
    \/ rg = NewSquavaGame /\ getForcedMoves
    \/ gs = NewGame /\ ret.op = "newGame" /\ RunCheckPlayers
    \/ gs = NewGame /\ ret.op = "newGame" /\ \E idx \in InputsOn(rg.board) : RunTurn(idx)

SpecGame == Init /\ [][NextGame]_vars

\* ------------------------------------------------------------------------
\* TestSimulationLogic: stones are set on an empty board, then SimulateStep
\* is applied, each later step to the state the step before returned.
\* ------------------------------------------------------------------------

SetupCells == {0, 1, 3, 8, 9}
SimCells == {0, 1, 2, 3, 8, 9, 10}

\* board.Set(idx, pID) before the first step
SimSet(idx, pID) ==
    /\ sim.steps = 0
    /\ Cardinality(sim.board.Occupied) < MaxSetup
    /\ idx \notin sim.board.Occupied
    /\ sim' = [sim EXCEPT !.board = Set(sim.board, idx, pID)]
    /\ UNCHANGED <<pb, out, gs, ret, track, rg, mc, tt, ro>>

\* state := SimulateStep(board, players, currentID, MoveFromIndex(idx))
SimStep(idx, currentID) ==
    LET st == SimulateStep(sim.board, sim.remainingPlayers, currentID, MoveFromIndex(idx))
    IN  /\ sim.steps < MaxSteps
        /\ sim.winnerID = -1
        /\ idx \notin sim.board.Occupied
        /\ sim.steps > 0 => currentID = sim.nextPlayerID
        /\ sim' = [board |-> st.board, remainingPlayers |-> st.remainingPlayers,
                   nextPlayerID |-> st.nextPlayerID, winnerID |-> st.winnerID,
                   steps |-> sim.steps + 1,
                   prev |-> [board |-> sim.board, players |-> sim.remainingPlayers,
                             currentID |-> currentID, idx |-> idx]]
        /\ UNCHANGED <<pb, out, gs, ret, track, rg, mc, tt, ro>>

NextSim ==
    \/ \E idx \in SetupCells, pID \in PlayerIDs : SimSet(idx, pID)
    \/ \E idx \in SimCells, currentID \in PlayerIDs : SimStep(idx, currentID)

SpecSim == Init /\ [][NextSim]_vars

InitBB ==
    /\ \E f \in ForeignPatterns : pb = [stones |-> {}, empty |-> Cells \ f, chain |-> TRUE]
    /\ out = NoOut
    /\ gs = NewGame
    /\ ret = [op |-> "newGame", idx |-> -1, ok |-> TRUE, forced |-> {}, prev |-> NewGame]
    /\ track = {}
    /\ rg = NewSquavaGame
    /\ sim = NewSim
    /\ mc = NoSearch
    /\ tt = NewTable
    /\ ro = NoRollout

\* Up to MaxFree stones go anywhere; beyond that, up to MaxChain, only boards
\* grown stone by stone along the strides.
PlaceStone(c) ==
    LET chain == pb.chain /\ (pb.stones = {} \/ Adjacent(c, pb.stones))
    IN  /\ out.done
        /\ c \in pb.empty
        /\ \/ Cardinality(pb.stones) < MaxFree
           \/ chain /\ Cardinality(pb.stones) < MaxChain
        /\ pb' = [stones |-> pb.stones \cup {c}, empty |-> pb.empty \ {c}, chain |-> chain]
        /\ out' = NoOut
        /\ UNCHANGED <<gs, ret, track, rg, sim, mc, tt, ro>>

Evaluate ==
    /\ ~out.done
    /\ out' = [done |-> TRUE,
               wl |-> GetWinsAndLosses(pb.stones, pb.empty),
               vector |-> getWinsAndLossesAVX2(pb.stones, pb.empty),
               scalar |-> getWinsAndLossesGo(pb.stones, pb.empty),
               isWin |-> CheckWin(pb.stones),
               isLose |-> CheckLose(pb.stones)]
    /\ UNCHANGED <<pb, gs, ret, track, rg, sim, mc, tt, ro>>

NextBB ==
    \/ \E c \in ProbeCells : PlaceStone(c)
    \/ Evaluate

SpecBB == InitBB /\ [][NextBB]_vars

\* C1: for stones & empty == 0, the win mask is exactly the empty cells that
\* complete a four-run of stones, and the lose mask is exactly the empty cells
\* that complete a three-run and are not in the win mask.
C1_ExtractorMatchesBruteForce ==
    out.done =>
        /\ pb.stones \cap pb.empty = {}
        /\ out.wl.w = pb.empty \cap Completes(Runs4, pb.stones)
        /\ out.wl.l = (pb.empty \cap Completes(Runs3, pb.stones)) \ out.wl.w

\* A probe with foreign stones on the board that reports both a winning and
\* a losing cell, and a completing cell that is blocked by a foreign stone.
C1_Witness ==
    /\ out.done
    /\ out.wl.w # {}
    /\ out.wl.l # {}
    /\ Completes(Runs3, pb.stones) \ (pb.empty \cup pb.stones) # {}

\* C2: CheckWin holds iff stones contain a four-run on the board and CheckLose
\* iff they contain a three-run; a run does not continue across a row edge:
\* {G1,H1,A2,B2} is no win, {A1,B1,C1,D1} and {H1,G2,F3,E4} are wins.
C2_CheckBoardMatchesRuns ==
    out.done =>
        /\ out.isWin = HasRun(Runs4, pb.stones)
        /\ out.isLose = HasRun(Runs3, pb.stones)
        /\ pb.stones = {6, 7, 8, 9} => ~out.isWin
        /\ pb.stones = {0, 1, 2, 3} => out.isWin
        /\ pb.stones = {7, 14, 21, 28} => out.isWin

\* CheckWin has been applied to the wrapping cells G1, H1, A2, B2.
C2_Witness ==
    /\ out.done
    /\ pb.stones = {6, 7, 8, 9}
    /\ ~out.isWin
    /\ ~out.isLose

\* C3: the win mask and the lose mask are disjoint subsets of empty, and an
\* empty cell that completes both a three-run and a four-run is in the win
\* mask only.
C3_LoseExcludesWin ==
    out.done =>
        /\ out.wl.w \cap out.wl.l = {}
        /\ out.wl.w \subseteq pb.empty
        /\ out.wl.l \subseteq pb.empty
        /\ \A c \in pb.empty \cap Completes(Runs3, pb.stones) \cap Completes(Runs4, pb.stones) :
               c \in out.wl.w /\ c \notin out.wl.l

\* A probe in which the L lanes of the extractor held a winning cell, which
\* the final step removed, beside a cell that only loses; a foreign stone
\* sits on a cell that would complete a three-run.
C3_Witness ==
    /\ out.done
    /\ getWinsAndLossesAVX2(pb.stones, pb.empty).l \cap out.wl.w # {}
    /\ out.wl.l # {}
    /\ Completes(Runs3, pb.stones) \ (pb.empty \cup pb.stones) # {}


\* ------------------------------------------------------------------------
\* MCTSPlayer.GetMoveWithContext of squava.go, as Run calls it for the player
\* to move.  The nodes of the search are kept by their path from the root:
\* the node under key m of the children map of the node at path is at
\* Append(path, m), and storing a new node under a key that is present drops
\* the node that was there with all below it.
\* ------------------------------------------------------------------------

\* MCTSNode.GetPossibleMoves
GetPossibleMoves(board, playerToMoveID, remainingPlayers, winnerID) ==
    IF winnerID # -1 THEN <<>>
    ELSE IF Len(remainingPlayers) = 0 THEN <<>>
    ELSE IF ~\E i \in 1..Len(remainingPlayers) : remainingPlayers[i] = playerToMoveID
    THEN <<>>
    ELSE LET currIdx == IndexOf(remainingPlayers, playerToMoveID)
             nextID == remainingPlayers[((currIdx + 1) % Len(remainingPlayers)) + 1]
             validMoves == GetValidMoves(board, playerToMoveID, nextID)
         IN  IF validMoves = Nil THEN MovesOf(Not(board.Occupied)) ELSE validMoves

\* NewMCTSNode; the parent is the node one step up the path.  inserted lists
\* the keys of children in the order they first entered the map (the map of
\* the source keeps no such order).
NewMCTSNode(board, playerToMoveID, remainingPlayers) ==
    [board |-> board, visits |-> 0, wins |-> 0,
     playerToMoveID |-> playerToMoveID, remainingPlayers |-> remainingPlayers,
     winnerID |-> -1,
     untriedMoves |-> GetPossibleMoves(board, playerToMoveID, remainingPlayers, -1),
     inserted |-> <<>>]

\* The paths of the children of the node at path
Children(nodes, path) ==
    {q \in DOMAIN nodes : Len(q) = Len(path) + 1 /\ SubSeq(q, 1, Len(path)) = path}

\* The moves of a list, and the moves keyed in the children of the node at path
MoveSet(moves) == {moves[i] : i \in 1..Len(moves)}
ChildMoves(nodes, path) == {q[Len(q)] : q \in Children(nodes, path)}

\* MCTSNode.UCTSelectChild: the children the loop over the map can return.
\* The map is visited in any order and a child replaces the best so far only
\* on a strictly greater score, so an unvisited child (score +Inf) is returned
\* when there is one, and otherwise a child of greatest winRate + explore.
\* The reals are not computed: a child is kept unless another child has both
\* a win rate and an exploration term at least as great, one of them greater.
UCTSelectChild(nodes, path) ==
    LET cs == Children(nodes, path)
        unvisited == {q \in cs : nodes[q].visits = 0}
        Beats(a, b) ==
            \/ nodes[a].wins * nodes[b].visits > nodes[b].wins * nodes[a].visits
                 /\ nodes[a].visits <= nodes[b].visits
            \/ nodes[a].wins * nodes[b].visits >= nodes[b].wins * nodes[a].visits
                 /\ nodes[a].visits < nodes[b].visits
    IN  IF unvisited # {} THEN unvisited
        ELSE {q \in cs : ~\E a \in cs : Beats(a, q)}

\* The nodes at which the selection loop of an iteration can stop.
RECURSIVE SelectionEnds(_, _)
SelectionEnds(nodes, path) ==
    IF Len(nodes[path].untriedMoves) = 0 /\ Children(nodes, path) # {}
    THEN UNION {SelectionEnds(nodes, q) : q \in UCTSelectChild(nodes, path)}
    ELSE {path}

\* MCTSNode.AddChild: the child made from the state SimulateStep returned is
\* stored under move; untriedMoves of the node is left as it is.
AddChild(nodes, path, move, state) ==
    LET child == [NewMCTSNode(state.board, state.nextPlayerID, state.remainingPlayers)
                      EXCEPT !.winnerID = state.winnerID]
        cpath == Append(path, move)
        kept == {q \in DOMAIN nodes :
                     ~(Len(q) >= Len(cpath) /\ SubSeq(q, 1, Len(cpath)) = cpath)}
        node == [nodes[path] EXCEPT
                     !.inserted = IF \E i \in 1..Len(@) : @[i] = move THEN @
                                  ELSE Append(@, move)]
    IN  [q \in kept \cup {cpath} |->
             IF q = cpath THEN child ELSE IF q = path THEN node ELSE nodes[q]]

\* Update that credits a node when the winner is its own player to move.
Update_CreditsOwnMover(nodes, path, winner) ==
    [q \in DOMAIN nodes |->
        IF Len(q) <= Len(path) /\ SubSeq(path, 1, Len(q)) = q
        THEN [nodes[q] EXCEPT
                 !.visits = @ + 1,
                 !.wins = IF Len(q) > 0 /\ winner # -1 /\ nodes[q].playerToMoveID = winner
                          THEN @ + 1 ELSE @]
        ELSE nodes[q]]

\* MCTSNode.Update on the node at path and on every node above it; winner is
\* the key of result, -1 for the empty map.
Update(nodes, path, winner) ==
    [q \in DOMAIN nodes |->
        IF Len(q) <= Len(path) /\ SubSeq(path, 1, Len(q)) = q
        THEN [nodes[q] EXCEPT
                 !.visits = @ + 1,
                 !.wins = IF Len(q) > 0 /\ winner # -1
                             /\ nodes[SubSeq(q, 1, Len(q) - 1)].playerToMoveID = winner
                          THEN @ + 1 ELSE @]
        ELSE nodes[q]]

\* The forced moves Run passes to the search (squava.go:852)
RunForcedMoves ==
    GetValidMoves(rg.board, rg.players[rg.turnIdx + 1],
                  rg.players[((rg.turnIdx + 1) % Len(rg.players)) + 1])

\* The root and the forced moves (squava.go:525-529)
MctsStart(iterations) ==
    LET root0 == NewMCTSNode(rg.board, rg.players[rg.turnIdx + 1], rg.players)
        forcedMoves == RunForcedMoves
        root == IF Len(forcedMoves) > 0 THEN [root0 EXCEPT !.untriedMoves = forcedMoves]
                ELSE root0
    IN  /\ mc.phase = "idle"
        /\ rg.result = "running"
        /\ Len(rg.players) >= 2
        /\ IF Len(forcedMoves) > 0 THEN Len(forcedMoves) <= MaxRootMoves
           ELSE Cardinality(Not(rg.board.Occupied)) <= MaxRootMoves
        /\ Len(root.untriedMoves) <= MaxRootMoves
        /\ mc' = [phase |-> "searching", iterations |-> iterations, i |-> 0,
                  forcedMoves |-> forcedMoves, nodes |-> (<<>> :> root),
                  move |-> MoveFromIndex(0),
                  last |-> [path |-> <<>>, expanded |-> FALSE, winner |-> -1]]
        /\ UNCHANGED <<pb, out, gs, ret, track, rg, sim, tt, ro>>

\* One iteration of the loop (squava.go:531-555).  pick is the value of
\* rand.Intn; winner is the key of the map RunSimulation returns (-1 for the
\* empty map), one of the players left in the node or none.  last records
\* the node the iteration ended its descent in, whether it was made by this
\* iteration, and the result.
MctsIterate(pick, winner) ==
    /\ mc.phase = "searching"
    /\ mc.i < mc.iterations
    /\ \E sel \in SelectionEnds(mc.nodes, <<>>) :
         LET node == mc.nodes[sel]
             expands == Len(node.untriedMoves) > 0
             move == node.untriedMoves[pick + 1]
             state == SimulateStep(node.board, node.remainingPlayers,
                                   node.playerToMoveID, move)
             nodes1 == IF expands THEN AddChild(mc.nodes, sel, move, state) ELSE mc.nodes
             path == IF expands THEN Append(sel, move) ELSE sel
             leaf == nodes1[path]
         IN  /\ expands => pick < Len(node.untriedMoves)
             /\ ~expands => pick = 0
             /\ IF leaf.winnerID # -1 THEN winner = leaf.winnerID
                ELSE \/ winner = -1
                     \/ \E j \in 1..Len(leaf.remainingPlayers) :
                            leaf.remainingPlayers[j] = winner
             /\ mc' = [mc EXCEPT !.nodes = Update(nodes1, path, winner), !.i = mc.i + 1,
                                  !.last = [path |-> path, expanded |-> expands,
                                            winner |-> winner]]
    /\ UNCHANGED <<pb, out, gs, ret, track, rg, sim, tt, ro>>

\* The return after the loop with Move{0, 0} for every root without a child.
MctsReturn_AlwaysFirstCell(m) ==
    LET cs == Children(mc.nodes, <<>>)
    IN  /\ mc.phase = "searching"
        /\ mc.i = mc.iterations
        /\ IF cs = {}
           THEN m = MoveFromIndex(0)
           ELSE /\ Append(<<>>, m) \in cs
                /\ \A q \in cs : mc.nodes[q].visits <= mc.nodes[Append(<<>>, m)].visits
        /\ mc' = [mc EXCEPT !.phase = "done", !.move = m]
        /\ UNCHANGED <<pb, out, gs, ret, track, rg, sim, tt, ro>>

\* The move returned after the loop (squava.go:557-575): with no child the
\* first forced move or the lowest empty cell; otherwise the child the loop
\* over the map ends with, which visits the map in any order and replaces
\* the best so far only on a strictly greater visit count.
MctsReturn(m) ==
    LET root == mc.nodes[<<>>]
        cs == Children(mc.nodes, <<>>)
        empty == Not(rg.board.Occupied)
    IN  /\ mc.phase = "searching"
        /\ mc.i = mc.iterations
        /\ IF cs = {}
           THEN m = IF Len(mc.forcedMoves) > 0 THEN mc.forcedMoves[1]
                    ELSE IF empty # {} THEN MoveFromIndex(TrailingZeros64(empty))
                    ELSE MoveFromIndex(0)
           ELSE /\ Append(<<>>, m) \in cs
                /\ \A q \in cs : mc.nodes[q].visits <= mc.nodes[Append(<<>>, m)].visits
        /\ mc' = [mc EXCEPT !.phase = "done", !.move = m]
        /\ UNCHANGED <<pb, out, gs, ret, track, rg, sim, tt, ro>>

\* The game of Run with, at any turn, a search for the player to move.
NextMCTS ==
    \/ mc.phase = "idle" /\ NextRun
    \/ \E iterations \in 0..MaxIterations : MctsStart(iterations)
    \/ \E pick \in 0..(MaxRootMoves - 1), winner \in {-1} \cup PlayerIDs :
           MctsIterate(pick, winner)
    \/ \E idx \in Cells : MctsReturn(MoveFromIndex(idx))

SpecMCTS == Init /\ [][NextMCTS]_vars

\* ------------------------------------------------------------------------
\* TestZobristConsistency: stones are set on an empty board, then the hash
\* is taken twice, once more with another turn index, and once more with one
\* stone added.
\* ------------------------------------------------------------------------

ZobristProbe(turnIdx, idx, pID) ==
    LET board == sim.board
        otherTurn == (turnIdx + 1) % 3
        board2 == Set(board, idx, pID)
    IN  /\ ~out.done
        /\ idx \notin board.Occupied
        /\ out' = [done |-> TRUE, board |-> board, turnIdx |-> turnIdx,
                   idx |-> idx, pID |-> pID,
                   h1 |-> ZobristHash(board, turnIdx, 7),
                   h2 |-> ZobristHash(board, turnIdx, 7),
                   h3 |-> ZobristHash(board, otherTurn, 7),
                   h4 |-> ZobristHash(board2, turnIdx, 7)]
        /\ UNCHANGED <<pb, gs, ret, track, rg, sim, mc, tt, ro>>

NextZobrist ==
    \/ ~out.done /\ \E idx \in SetupCells, pID \in PlayerIDs : SimSet(idx, pID)
    \/ \E turnIdx \in PlayerIDs, idx \in SimCells, pID \in PlayerIDs :
           ZobristProbe(turnIdx, idx, pID)

SpecZobrist == Init /\ [][NextZobrist]_vars

\* ------------------------------------------------------------------------
\* The rules of the game, stated on the runs: the vocabulary of the
\* properties of moves and turns
\* ------------------------------------------------------------------------

\* ------------------------------------------------------------------------
\* RunSimulation of squava.go, one action per iteration of its loop, called
\* on the board, the players and the player to move of a position of Run.
\* ------------------------------------------------------------------------

\* The cells the loop picks from: threats | myWins when the next player has
\* a winning cell, the empty cells otherwise.
SimulationMoves(simBoard, simPlayers, curr) ==
    LET pIdx == IndexOf(simPlayers, curr)
        nextP == simPlayers[((pIdx + 1) % Len(simPlayers)) + 1]
        threats == GetWinningMoves(simBoard, nextP)
        myWins == GetWinningMoves(simBoard, curr)
    IN  IF threats # {} THEN threats \cup myWins ELSE Not(simBoard.Occupied)

\* The cell left lowest after temp &= temp - 1 was applied pick times
PickBit(bb, pick) == CHOOSE c \in bb : Cardinality({d \in bb : d < c}) = pick

\* One iteration that tests CheckLose before CheckWin.
SimulationPly_LoseFirst(simBoard, simPlayers, curr, pick) ==
    LET pIdx == IndexOf(simPlayers, curr)
        removed == RemoveAt(simPlayers, pIdx)
        stay(result) == [board |-> simBoard, players |-> simPlayers, curr |-> curr,
                         done |-> TRUE, result |-> result, idx |-> -1]
        iteration(movesBitboard, selectedIdx) ==
            LET board == Set(simBoard, selectedIdx, curr)
            IN  IF movesBitboard = {} THEN stay(-1)
                ELSE IF CheckLose(GetPlayerBoard(board, curr))
                THEN IF Len(removed) = 1
                 THEN [board |-> board, players |-> removed, curr |-> curr,
                       done |-> TRUE, result |-> removed[1], idx |-> selectedIdx]
                 ELSE [board |-> board, players |-> removed,
                       curr |-> removed[(IF pIdx >= Len(removed) THEN 0 ELSE pIdx) + 1],
                       done |-> FALSE, result |-> -1, idx |-> selectedIdx]
                ELSE IF CheckWin(GetPlayerBoard(board, curr))
                THEN [board |-> board, players |-> simPlayers, curr |-> curr,
                      done |-> TRUE, result |-> curr, idx |-> selectedIdx]
                ELSE [board |-> board, players |-> simPlayers,
                      curr |-> simPlayers[((pIdx + 1) % Len(simPlayers)) + 1],
                      done |-> FALSE, result |-> -1, idx |-> selectedIdx]
    IN  IF Len(simPlayers) = 1 THEN stay(simPlayers[1])
        ELSE CHOOSE r \in
                 {iteration(m, IF m = {} THEN -1 ELSE PickBit(m, pick)) :
                     m \in {SimulationMoves(simBoard, simPlayers, curr)}} : TRUE

\* One iteration that reports a draw as soon as no cell is forced.
SimulationPly_DrawWhenUnforced(simBoard, simPlayers, curr, pick) ==
    LET pIdx == IndexOf(simPlayers, curr)
        removed == RemoveAt(simPlayers, pIdx)
        stay(result) == [board |-> simBoard, players |-> simPlayers, curr |-> curr,
                         done |-> TRUE, result |-> result, idx |-> -1]
        iteration(movesBitboard, selectedIdx) ==
            LET board == Set(simBoard, selectedIdx, curr)
            IN  IF movesBitboard = {} THEN stay(-1)
                ELSE IF CheckWin(GetPlayerBoard(board, curr))
                THEN [board |-> board, players |-> simPlayers, curr |-> curr,
                      done |-> TRUE, result |-> curr, idx |-> selectedIdx]
                ELSE IF CheckLose(GetPlayerBoard(board, curr))
                THEN IF Len(removed) = 1
                 THEN [board |-> board, players |-> removed, curr |-> curr,
                       done |-> TRUE, result |-> removed[1], idx |-> selectedIdx]
                 ELSE [board |-> board, players |-> removed,
                       curr |-> removed[(IF pIdx >= Len(removed) THEN 0 ELSE pIdx) + 1],
                       done |-> FALSE, result |-> -1, idx |-> selectedIdx]
                ELSE [board |-> board, players |-> simPlayers,
                      curr |-> simPlayers[((pIdx + 1) % Len(simPlayers)) + 1],
                      done |-> FALSE, result |-> -1, idx |-> selectedIdx]
    IN  IF Len(simPlayers) = 1 THEN stay(simPlayers[1])
        ELSE CHOOSE r \in
                 {iteration(m, IF m = {} THEN -1 ELSE PickBit(m, pick)) :
                     m \in {IF GetWinningMoves(simBoard, simPlayers[((pIdx + 1) % Len(simPlayers)) + 1]) # {}
                     THEN SimulationMoves(simBoard, simPlayers, curr) ELSE {}}} : TRUE

\* One iteration of the loop of RunSimulation (squava.go:729-787) on the
\* locals simBoard, simPlayers and curr; pick is the value of rand.Intn(count).
\* done says that the iteration returned, result is the key of the map it
\* returned (-1 for the empty map), idx the cell it set (-1 for none).
SimulationPly(simBoard, simPlayers, curr, pick) ==
    LET pIdx == IndexOf(simPlayers, curr)
        removed == RemoveAt(simPlayers, pIdx)
        stay(result) == [board |-> simBoard, players |-> simPlayers, curr |-> curr,
                         done |-> TRUE, result |-> result, idx |-> -1]
        iteration(movesBitboard, selectedIdx) ==
            LET board == Set(simBoard, selectedIdx, curr)
            IN  IF movesBitboard = {} THEN stay(-1)
                ELSE IF CheckWin(GetPlayerBoard(board, curr))
                THEN [board |-> board, players |-> simPlayers, curr |-> curr,
                      done |-> TRUE, result |-> curr, idx |-> selectedIdx]
                ELSE IF CheckLose(GetPlayerBoard(board, curr))
                THEN IF Len(removed) = 1
                 THEN [board |-> board, players |-> removed, curr |-> curr,
                       done |-> TRUE, result |-> removed[1], idx |-> selectedIdx]
                 ELSE [board |-> board, players |-> removed,
                       curr |-> removed[(IF pIdx >= Len(removed) THEN 0 ELSE pIdx) + 1],
                       done |-> FALSE, result |-> -1, idx |-> selectedIdx]
                ELSE [board |-> board, players |-> simPlayers,
                      curr |-> simPlayers[((pIdx + 1) % Len(simPlayers)) + 1],
                      done |-> FALSE, result |-> -1, idx |-> selectedIdx]
    IN  IF Len(simPlayers) = 1 THEN stay(simPlayers[1])
        ELSE CHOOSE r \in
                 {iteration(m, IF m = {} THEN -1 ELSE PickBit(m, pick)) :
                     m \in {SimulationMoves(simBoard, simPlayers, curr)}} : TRUE

\* RunSimulation is entered (squava.go:722-727)
RolloutStart ==
    /\ ro.phase = "idle"
    /\ mc.phase = "idle"
    /\ rg.result = "running"
    /\ Len(rg.players) >= 1
    /\ Cardinality(Not(rg.board.Occupied)) <= MaxRolloutEmpty
    /\ ro' = [phase |-> "running", board |-> rg.board, players |-> rg.players,
              curr |-> rg.players[rg.turnIdx + 1], result |-> -1, plies |-> 0,
              empty0 |-> Cardinality(Not(rg.board.Occupied)), idx |-> -1,
              prev |-> [board |-> rg.board, players |-> rg.players,
                        curr |-> rg.players[rg.turnIdx + 1]]]
    /\ UNCHANGED <<pb, out, gs, ret, track, rg, sim, mc, tt>>

RolloutIterate(pick) ==
    /\ ro.phase = "running"
    /\ \E moves \in {IF Len(ro.players) = 1 THEN {}
                      ELSE SimulationMoves(ro.board, ro.players, ro.curr)} :
          IF moves = {} THEN pick = 0 ELSE pick < Cardinality(moves)
    /\ \E ply \in {SimulationPly(ro.board, ro.players, ro.curr, pick)} :
          ro' = [ro EXCEPT !.phase = IF ply.done THEN "done" ELSE "running",
                           !.board = ply.board, !.players = ply.players,
                           !.curr = ply.curr, !.result = ply.result,
                           !.plies = IF ply.idx = -1 THEN @ ELSE @ + 1,
                           !.idx = ply.idx,
                           !.prev = [board |-> ro.board, players |-> ro.players,
                                     curr |-> ro.curr]]
    /\ UNCHANGED <<pb, out, gs, ret, track, rg, sim, mc, tt>>

\* The caller has the result; another call can follow
RolloutReturn ==
    /\ ro.phase = "done"
    /\ ro' = NoRollout
    /\ UNCHANGED <<pb, out, gs, ret, track, rg, sim, mc, tt>>

\* The games of SpecRollout are the scripted ones, move by move.
RolloutInputs(b) ==
    {Lines[k][Cardinality(b.Occupied) + 1] :
        k \in {j \in track : Len(Lines[j]) > Cardinality(b.Occupied)}}

NextRollout ==
    \/ ro.phase = "idle" /\ RunCheckPlayers
    \/ ro.phase = "idle" /\ \E idx \in RolloutInputs(rg.board) : RunTurn(idx)
    \/ RolloutStart
    \/ \E pick \in 0..(MaxRolloutEmpty - 1) : RolloutIterate(pick)
    \/ RolloutReturn

SpecRollout == Init /\ [][NextRollout]_vars

\* The loop body of RunSimulation neither blocks nor waits: an iteration that
\* can run does run.
SpecRolloutFair ==
    SpecRollout /\ WF_vars(\E pick \in 0..(MaxRolloutEmpty - 1) : RolloutIterate(pick))

\* ------------------------------------------------------------------------
\* The selection step on its own: a root on the empty board gets children
\* with any visit and win counts, its untried moves are emptied or not, and
\* the loop of squava.go:534-536 runs from it; the order in which range
\* visits the children map is a choice.  (Inside
\* GetMoveWithContext the untried moves of a node are never emptied.)
\* ------------------------------------------------------------------------

NoProbe == [done |-> FALSE, nodes |-> (<<>> :> NewMCTSNode(EmptyBoard, 0, <<0, 1, 2>>)),
            end |-> <<>>]

InitUCT ==
    /\ pb = [stones |-> {}, empty |-> Cells, chain |-> TRUE]
    /\ out = NoProbe
    /\ gs = NewGame
    /\ ret = [op |-> "newGame", idx |-> -1, ok |-> TRUE, forced |-> {}, prev |-> NewGame]
    /\ track = {}
    /\ rg = NewSquavaGame
    /\ sim = NewSim
    /\ mc = NoSearch
    /\ tt = NewTable
    /\ ro = NoRollout

\* A child under key idx that has had the given visits and wins; each visit
\* of the child was a visit of the root.
UctAddChild(idx, visits, wins) ==
    LET move == MoveFromIndex(idx)
        root == out.nodes[<<>>]
        state == SimulateStep(root.board, root.remainingPlayers, root.playerToMoveID, move)
        nodes1 == AddChild(out.nodes, <<>>, move, state)
    IN  /\ ~out.done
        /\ move \notin ChildMoves(out.nodes, <<>>)
        /\ wins <= visits
        /\ out' = [out EXCEPT !.nodes =
                      [nodes1 EXCEPT ![<<>>].visits = @ + visits,
                                     ![Append(<<>>, move)].visits = visits,
                                     ![Append(<<>>, move)].wins = wins]]
        /\ UNCHANGED <<pb, gs, ret, track, rg, sim, mc, tt, ro>>

\* The loop for len(node.untriedMoves) == 0 && len(node.children) > 0 from
\* the root; exhausted says whether the root's untried moves were used up.
\* math.Log of the root's visits is positive from two visits on.
UctSelect(exhausted) ==
    LET nodes == IF exhausted THEN [out.nodes EXCEPT ![<<>>].untriedMoves = <<>>]
                 ELSE out.nodes
    IN  /\ ~out.done
        /\ nodes[<<>>].visits >= 2
        /\ \E end \in SelectionEnds(nodes, <<>>) :
               out' = [done |-> TRUE, nodes |-> nodes, end |-> end]
        /\ UNCHANGED <<pb, gs, ret, track, rg, sim, mc, tt, ro>>

NextUCT ==
    \/ \E idx \in 0..(MaxChildren - 1), visits \in 0..MaxVisits, wins \in 0..MaxVisits :
           UctAddChild(idx, visits, wins)
    \/ \E exhausted \in BOOLEAN : UctSelect(exhausted)

SpecUCT == InitUCT /\ [][NextUCT]_vars

\* ------------------------------------------------------------------------
\* getBestMove of main_wasm.go.  MCTSPlayer.GetMove with three arguments is
\* the search of the specification: it returns the lowest winning cell of the
\* mover when there is one, and otherwise takes its root from the
\* transposition table under the hash of the position and returns a move the
\* forced-move rule allows.  The number the hash of the position has, the
\* staleness of a colliding resident and the move the search prefers are
\* inputs.
\* ------------------------------------------------------------------------

\* The moves a search may answer, and whether a lookup finds another hash
SearchAnswers(legal) == {m \in legal : Cardinality({c \in legal : c < m}) < MaxAnswers}
Collides(table, hash) == table.slots[SlotOf(hash)].hash \notin {-1, hash}

Best(idx, forced) == [op |-> "getBestMove", idx |-> idx, ok |-> TRUE, forced |-> forced, prev |-> gs]

\* getBestMove that builds the player and its root before the test of forced.
getBestMove_SearchesFirst ==
    LET activeIDs == ActiveIDs(gs.ActiveMask)
        turnIdx == TurnIdxOf(gs)
        forced == GetForcedMoves(gs.Board, activeIDs, turnIdx)
        legal == IF forced # {} THEN forced ELSE Not(gs.Board.Occupied)
    IN  /\ ~IsTerminal(gs)[2]
        /\ tt.made < MaxSearches
        /\ \E hash \in Hashes, stale \in BOOLEAN, m \in SearchAnswers(legal) :
              /\ stale => Collides(tt, hash)
              /\ tt' = GetOrInsert(tt, hash, stale)
              /\ ret' = Best(IF forced # {} /\ Cardinality(forced) = 1
                             THEN TrailingZeros64(forced) ELSE m, forced)
        /\ UNCHANGED <<gs, track, pb, out, rg, sim, mc, ro>>

getBestMove ==
    LET activeIDs == ActiveIDs(gs.ActiveMask)
        turnIdx == TurnIdxOf(gs)
        forced == GetForcedMoves(gs.Board, activeIDs, turnIdx)
        wins == GetWinsAndLosses(gs.Board.P[gs.PlayerID], Not(gs.Board.Occupied)).w
        legal == IF forced # {} THEN forced ELSE Not(gs.Board.Occupied)
    IN  /\ ~IsTerminal(gs)[2]
        /\ IF forced # {} /\ Cardinality(forced) = 1
           THEN /\ ret' = Best(TrailingZeros64(forced), forced)
                /\ UNCHANGED tt
           ELSE IF wins # {}
           THEN /\ ret' = Best(TrailingZeros64(wins), forced)
                /\ UNCHANGED tt
           ELSE /\ tt.made < MaxSearches
                /\ \E hash \in Hashes, stale \in BOOLEAN, m \in SearchAnswers(legal) :
                      /\ stale => Collides(tt, hash)
                      /\ tt' = GetOrInsert(tt, hash, stale)
                      /\ ret' = Best(m, forced)
        /\ UNCHANGED <<gs, track, pb, out, rg, sim, mc, ro>>

\* The caller of SpecBest plays the short scripted games.
ShortLines == {1, 6, 7, 8}
BestInputs(b) ==
    {Lines[k][Cardinality(b.Occupied) + 1] :
        k \in {j \in track \cap ShortLines : Len(Lines[j]) > Cardinality(b.Occupied)}}

NextBest ==
    \/ newGame
    \/ \E idx \in BestInputs(gs.Board) : ~BeyondEnd(idx) /\ applyMove(idx)
    \/ getBestMove

SpecBest == Init /\ [][NextBest]_vars

\* ------------------------------------------------------------------------
\* The transposition table under the calls a search makes on it: lookups of
\* any hash with any staleness of the resident, visit counts recorded for any
\* hash, and the Clear of newGame.
\* ------------------------------------------------------------------------

TtGetOrInsert(hash, stale) ==
    /\ Makes(tt, hash) => tt.made < MaxNodes
    /\ tt' = GetOrInsert(tt, hash, stale)
    /\ UNCHANGED <<pb, out, gs, ret, track, rg, sim, mc, ro>>

TtRecordVisit(hash, visits) ==
    /\ tt' = RecordVisit(tt, hash, visits)
    /\ UNCHANGED <<pb, out, gs, ret, track, rg, sim, mc, ro>>

NextTT ==
    \/ newGame
    \/ \E hash \in Hashes, stale \in BOOLEAN : TtGetOrInsert(hash, stale)
    \/ \E hash \in Hashes, visits \in 0..MaxVisits : TtRecordVisit(hash, visits)

SpecTT == Init /\ [][NextTT]_vars


\* The players whose bit is set in an active mask
BitsOf(mask) == {p \in PlayerIDs : (mask \div (2 ^ p)) % 2 = 1}

\* The first player of act after p in the cyclic order 0, 1, 2, 0
NextClockwise(act, p) ==
    IF (p + 1) % 3 \in act THEN (p + 1) % 3
    ELSE IF (p + 2) % 3 \in act THEN (p + 2) % 3
    ELSE p

\* The empty cells of board b where a stone of player p completes a four-run
WinningCells(b, p) == Completes(Runs4, b.P[p]) \ b.Occupied

\* The last handler call was an accepted applyMove
Moved == ret.op = "applyMove" /\ ret.ok

\* C4: on every turn of Run the forced moves GetValidMoves returned are nil
\* when the next active player clockwise after the mover has no winning cell,
\* and otherwise exactly the winning cells of that player and of the mover;
\* the winning cells of the third player play no part.
C4_ForcedMoveSet ==
    rg.turn.idx >= 0 =>
        LET t == rg.turn
            act == {t.players[i] : i \in 1..Len(t.players)}
            nxt == NextClockwise(act, t.mover)
            threats == WinningCells(t.board, nxt)
            expected == IF threats = {} THEN {}
                        ELSE threats \cup WinningCells(t.board, t.mover)
        IN  /\ t.next = nxt
            /\ {ToIndex(t.forcedMoves[i]) : i \in 1..Len(t.forcedMoves)} = expected
            /\ Len(t.forcedMoves) = Cardinality(expected)

\* A turn of three players on which the third player had a winning cell and
\* the next player had none: the mover was not restricted.
C4_Witness ==
    /\ rg.turn.idx >= 0
    /\ Len(rg.turn.players) = 3
    /\ \E p \in PlayerIDs \ {rg.turn.mover, rg.turn.next} :
           WinningCells(rg.turn.board, p) # {}
    /\ WinningCells(rg.turn.board, rg.turn.next) = {}
    /\ rg.turn.forcedMoves = Nil

\* C5: applyMove returns false and leaves currentGS as it was whenever the
\* cell is occupied, or the forced-move mask of the state is nonzero and does
\* not contain the cell.
C5_RejectedMoveChangesNothing ==
    ret.op = "applyMove" =>
        LET g == ret.prev
            forced == GetForcedMoves(g.Board, ActiveIDs(g.ActiveMask), TurnIdxOf(g))
        IN  (ret.idx \in g.Board.Occupied \/ (forced # {} /\ ret.idx \notin forced))
                => ~ret.ok /\ gs = g

\* An empty cell was refused because it is outside a nonzero forced mask.
C5_Witness ==
    /\ ret.op = "applyMove"
    /\ ~ret.ok
    /\ ret.idx \notin ret.prev.Board.Occupied
    /\ GetForcedMoves(ret.prev.Board, ActiveIDs(ret.prev.ActiveMask), TurnIdxOf(ret.prev)) # {}
    /\ gs = ret.prev

\* C6: a step that gives the mover a three-run and no four-run removes exactly
\* the mover from the players in the game and, when two players remain, leaves
\* no winner and gives the move to the next remaining player clockwise.
C6_EliminationPassesTheTurn ==
    (sim.steps > 0 /\ HasRun(Runs3, sim.board.P[sim.prev.currentID])
                   /\ ~HasRun(Runs4, sim.board.P[sim.prev.currentID])) =>
        LET m == sim.prev.currentID
            before == MaskOf(sim.prev.players)
            after == MaskOf(sim.remainingPlayers)
        IN  /\ m \in BitsOf(before)
            /\ after = before - 2 ^ m
            /\ Len(sim.remainingPlayers) = Cardinality(BitsOf(after))
            /\ Cardinality(BitsOf(after)) = 2 =>
                   /\ sim.winnerID = -1
                   /\ sim.nextPlayerID = NextClockwise(BitsOf(after), m)

\* All three in the game, P0 on cells 0 and 1 plays cell 2: P0 is out and the
\* next player is 1.
C6_Witness ==
    /\ sim.steps = 1
    /\ sim.prev.board.P[0] = {0, 1}
    /\ sim.prev.currentID = 0
    /\ sim.prev.idx = 2
    /\ sim.remainingPlayers = <<1, 2>>
    /\ sim.winnerID = -1
    /\ sim.nextPlayerID = 1

\* C7: a step that eliminates the mover and leaves exactly one player makes
\* that player the winner and ends the game; with P0 on 0 and 1 and P1 on 8
\* and 9, P0 playing 2 and then P1 playing 10 ends with winner 2.
C7_LastPlayerWins ==
    /\ (sim.steps > 0 /\ Len(sim.remainingPlayers) < Len(sim.prev.players)
                      /\ Len(sim.remainingPlayers) = 1) =>
           /\ sim.winnerID = sim.remainingPlayers[1]
           /\ sim.winnerID \in PlayerIDs \ {sim.prev.currentID}
           /\ sim.nextPlayerID = -1
           /\ IsTerminal([NewGameState(sim.board, sim.nextPlayerID,
                                       MaskOf(sim.remainingPlayers))
                              EXCEPT !.WinnerID = sim.winnerID]) = <<sim.winnerID, TRUE>>
    /\ (sim.steps = 2 /\ sim.board.P = [p \in PlayerIDs |-> <<{0, 1, 2}, {8, 9, 10}, {}>>[p + 1]]
                      /\ sim.prev.idx = 10 /\ sim.prev.currentID = 1
                      /\ sim.prev.board.P[0] = {0, 1, 2}) =>
           /\ sim.prev.players = <<1, 2>>
           /\ sim.remainingPlayers = <<2>>
           /\ sim.winnerID = 2

\* The two steps of the example were made: P0 to 2, then P1 to 10.
C7_Witness ==
    /\ sim.steps = 2
    /\ sim.board.P[0] = {0, 1, 2}
    /\ sim.board.P[1] = {8, 9, 10}
    /\ sim.board.P[2] = {}
    /\ sim.prev.idx = 10
    /\ sim.prev.currentID = 1
    /\ sim.winnerID = 2

\* C8: an accepted move after which the mover has a four-run makes the mover
\* the winner, leaves the active mask as it was with the mover's bit set, and
\* leaves a terminal state with no player to move.
C8_FourInARowWins ==
    (Moved /\ ret.prev.PlayerID \in PlayerIDs
           /\ HasRun(Runs4, gs.Board.P[ret.prev.PlayerID])) =>
        /\ HasRun(Runs3, gs.Board.P[ret.prev.PlayerID])
        /\ gs.WinnerID = ret.prev.PlayerID
        /\ gs.ActiveMask = ret.prev.ActiveMask
        /\ ret.prev.PlayerID \in BitsOf(gs.ActiveMask)
        /\ gs.PlayerID = -1
        /\ IsTerminal(gs) = <<ret.prev.PlayerID, TRUE>>

\* A move in a game completed a four-run.
C8_Witness ==
    /\ Moved
    /\ ret.prev.PlayerID \in PlayerIDs
    /\ ~HasRun(Runs4, ret.prev.Board.P[ret.prev.PlayerID])
    /\ HasRun(Runs4, gs.Board.P[ret.prev.PlayerID])
    /\ gs.WinnerID = ret.prev.PlayerID

C10_LastStandingBeatsDraw ==
    (rg.result # "running" /\ Len(rg.players) = 1) => rg.result = "lastStanding"

C13_WinnerHasFourOrStandsAlone ==
    gs.WinnerID >= 0 =>
        /\ gs.WinnerID \in PlayerIDs
        /\ \/ HasRun(Runs4, gs.Board.P[gs.WinnerID])
           \/ BitsOf(gs.ActiveMask) = {gs.WinnerID}
        /\ gs.WinnerID \in BitsOf(gs.ActiveMask)
        /\ ~HasRun(Runs3, gs.Board.P[gs.WinnerID]) \/ HasRun(Runs4, gs.Board.P[gs.WinnerID])

\* A player won as the last one standing, without a four-run.
C13_Witness ==
    /\ Moved
    /\ gs.WinnerID >= 0
    /\ ~HasRun(Runs4, gs.Board.P[gs.WinnerID])
    /\ BitsOf(gs.ActiveMask) = {gs.WinnerID}
    /\ ret.prev.PlayerID # gs.WinnerID

C16_SearchPlaysWinningCell ==
    (mc.phase = "done" /\ WinningCells(rg.board, rg.players[rg.turnIdx + 1]) # {}) =>
        ToIndex(mc.move) \in WinningCells(rg.board, rg.players[rg.turnIdx + 1])

\* C18: after a search that made a child of the root, the move returned is
\* that of a root child of greatest visit count, and among the root children
\* of that visit count it is the one that entered the children first.
C18_MostVisitedFirstInserted ==
    (mc.phase = "done" /\ Children(mc.nodes, <<>>) # {}) =>
        LET root == mc.nodes[<<>>]
            Visits(m) == mc.nodes[Append(<<>>, m)].visits
            top == {i \in 1..Len(root.inserted) :
                        \A j \in 1..Len(root.inserted) :
                            Visits(root.inserted[j]) <= Visits(root.inserted[i])}
        IN  /\ \E i \in top : root.inserted[i] = mc.move
            /\ \A i \in top : root.inserted[i] = mc.move => \A j \in top : i <= j

\* The entry the latest get_or_insert found in the slot it probed
Probed == tt.last.before[SlotOf(tt.last.hash)]
\* The nodes a table holds
NodesIn(slots) == {slots[i].node : i \in {k \in DOMAIN slots : slots[k].hash # -1}}
Collided == tt.last.op = "getOrInsert" /\ Probed.hash # -1 /\ Probed.hash # tt.last.hash

\* C19: get_or_insert(hash) returns a node that was in the table only if that
\* node was stored under the requested hash in slot hash mod size; on a
\* matching slot it returns the resident and changes no slot; on an empty slot
\* it installs (hash, new node, 0); and whenever the hash is resident after
\* the call the node returned is the resident one, so that a repeated call
\* returns the same node.
C19_LookupNeverCrossesHashes ==
    tt.last.op = "getOrInsert" =>
        LET h == tt.last.hash
            slot == SlotOf(h)
        IN  /\ \A i \in DOMAIN tt.last.before :
                   (tt.last.before[i].hash # -1 /\ tt.last.before[i].node = tt.last.node)
                       => (i = slot /\ tt.last.before[i].hash = h)
            /\ Probed.hash = h => (tt.last.node = Probed.node /\ tt.slots = tt.last.before)
            /\ Probed.hash = -1 =>
                   /\ tt.last.node \notin NodesIn(tt.last.before)
                   /\ tt.slots = [tt.last.before EXCEPT ![slot] =
                                      [hash |-> h, node |-> tt.last.node, visits |-> 0]]
            /\ tt.slots[slot].hash = h => tt.slots[slot].node = tt.last.node
            /\ tt.slots[slot].hash = h =>
                   \A stale \in BOOLEAN : GetOrInsert(tt, h, stale).last.node = tt.last.node

\* A lookup found its hash resident, with another resident beside it
C19_Witness ==
    /\ tt.last.op = "getOrInsert"
    /\ Probed.hash = tt.last.hash
    /\ tt.last.node = Probed.node
    /\ Cardinality(NodesIn(tt.slots)) >= 2

\* C20: on a collision the resident is replaced by (hash, new node, 0) only
\* when it is stale and has fewer visits than the threshold; otherwise no slot
\* changes and the node returned is in no slot; in every case a node is returned.
C20_CollisionEvictsOrScratches ==
    /\ tt.last.op = "getOrInsert" => tt.last.node >= 1
    /\ Collided =>
        IF tt.last.stale /\ Probed.visits < ReplaceThreshold
        THEN tt.slots = [tt.last.before EXCEPT ![SlotOf(tt.last.hash)] =
                             [hash |-> tt.last.hash, node |-> tt.last.node, visits |-> 0]]
        ELSE /\ tt.slots = tt.last.before
             /\ tt.last.node \notin NodesIn(tt.slots)

\* A collision on a stale resident with as many visits as the threshold: the
\* caller got a scratch node
C20_Witness ==
    /\ Collided
    /\ tt.last.stale
    /\ Probed.visits >= ReplaceThreshold
    /\ tt.slots = tt.last.before
    /\ tt.last.node \notin NodesIn(tt.slots)

ForcedNow == GetForcedMoves(gs.Board, ActiveIDs(gs.ActiveMask), TurnIdxOf(gs))

\* C17: a getBestMove call on a state whose forced-move mask has exactly one
\* bit returns that cell and changes neither the transposition table nor the
\* search state nor the game state; when the next active player has exactly
\* one winning cell and the mover has none, the mask is that cell alone.
C17_SingleForcedMoveReturnedAtOnce ==
    [][(ret'.op = "getBestMove" /\ ~IsTerminal(gs)[2]) =>
          /\ Cardinality(ForcedNow) = 1 =>
                (ret'.idx \in ForcedNow /\ tt' = tt /\ mc' = mc /\ gs' = gs)
          /\ (/\ Cardinality(BitsOf(gs.ActiveMask)) >= 2
              /\ WinningCells(gs.Board, gs.PlayerID) = {}
              /\ Cardinality(WinningCells(gs.Board, NextClockwise(BitsOf(gs.ActiveMask), gs.PlayerID))) = 1)
                => ForcedNow = WinningCells(gs.Board, NextClockwise(BitsOf(gs.ActiveMask), gs.PlayerID))]_vars

\* getBestMove returned the block of the next player's only winning cell, the
\* mover having none, with a node of an earlier search in the table
C17_Witness ==
    /\ ret.op = "getBestMove"
    /\ ret.prev = gs
    /\ Cardinality(ret.forced) = 1
    /\ ret.idx \in ret.forced
    /\ WinningCells(gs.Board, gs.PlayerID) = {}
    /\ ret.forced = WinningCells(gs.Board, NextClockwise(BitsOf(gs.ActiveMask), gs.PlayerID))
    /\ tt.made >= 1

\* The hashes resident in a table
HashesIn(slots) == {slots[i].hash : i \in {k \in DOMAIN slots : slots[k].hash # -1}}

\* C21: newGame leaves every slot of the transposition table empty; applyMove
\* changes no slot; getBestMove empties no slot and changes at most the slot
\* its root lookup probes, so an entry made by one getBestMove call is found
\* by the next call of the same game.
C21_TableLivesForOneGame ==
    [][/\ ret'.op = "newGame" => tt'.slots = EmptySlots
       /\ ret'.op = "applyMove" => tt' = tt
       /\ ret'.op = "getBestMove" =>
             /\ \A i \in DOMAIN tt.slots : tt.slots[i].hash # -1 => tt'.slots[i].hash # -1
             /\ tt' # tt => \A i \in DOMAIN tt.slots :
                                i # SlotOf(tt'.last.hash) => tt'.slots[i] = tt.slots[i]]_vars

\* A second search of the same game found the root entry an earlier call
\* installed, moves having been played in between
C21_Witness ==
    /\ ret.op = "getBestMove"
    /\ tt.last.op = "getOrInsert"
    /\ Probed.hash = tt.last.hash
    /\ tt.last.node = Probed.node
    /\ tt.slots = tt.last.before
    /\ Cardinality(gs.Board.Occupied) >= 2

Searching == mc.phase \in {"searching", "done"}

\* C22: at every node of a search, after any number of iterations, no move is
\* both untried and keyed in the children (so no move is expanded twice and
\* no child is replaced).
C22_UntriedAndChildrenDisjoint ==
    Searching =>
        \A path \in DOMAIN mc.nodes :
            MoveSet(mc.nodes[path].untriedMoves) \cap ChildMoves(mc.nodes, path) = {}

\* C23: after k iterations of a search the visit count of the root is k, and
\* it is the sum of the visit counts of the root's children when the root has
\* moves.
C23_RootVisitsAreChildVisits ==
    Searching =>
        LET root == mc.nodes[<<>>]
            cs == Children(mc.nodes, <<>>)
            RECURSIVE Sum(_)
            Sum(S) == IF S = {} THEN 0
                      ELSE LET q == CHOOSE x \in S : TRUE
                           IN  mc.nodes[q].visits + Sum(S \ {q})
        IN  /\ root.visits = mc.i
            /\ Len(root.untriedMoves) > 0 => root.visits = Sum(cs)

\* Whether path q is the path p or leads to it
OnPath(q, p) == Len(q) <= Len(p) /\ SubSeq(p, 1, Len(q)) = q
ParentOf(q) == SubSeq(q, 1, Len(q) - 1)

\* Every node has 0 <= wins <= visits and the root has no wins
C24_WinsWithinVisits ==
    Searching =>
        /\ mc.nodes[<<>>].wins = 0
        /\ \A q \in DOMAIN mc.nodes : 0 <= mc.nodes[q].wins /\ mc.nodes[q].wins <= mc.nodes[q].visits

\* An iteration adds 1 to the wins of a node exactly when the node is on the
\* path of the iteration, is not the root, and the rollout ended with one
\* winner who is the player to move at the node's parent
C24_CreditStep ==
    (Searching /\ mc'.phase = "searching" /\ mc'.i = mc.i + 1) =>
        \A q \in DOMAIN mc'.nodes :
            LET made == mc'.last.expanded /\ q = mc'.last.path
                before == IF made \/ q \notin DOMAIN mc.nodes THEN 0 ELSE mc.nodes[q].wins
                credited == /\ q # <<>>
                            /\ OnPath(q, mc'.last.path)
                            /\ mc'.last.winner # -1
                            /\ mc'.nodes[ParentOf(q)].playerToMoveID = mc'.last.winner
            IN  mc'.nodes[q].wins = before + (IF credited THEN 1 ELSE 0)

\* C24: back-propagation credits a node for the player who moved at its
\* parent: an iteration raises a node's wins by 1 exactly when its rollout had
\* one winner and that winner is the parent's player to move; a draw credits
\* no node, the root's wins never change, and 0 <= wins <= visits at every node.
C24_CreditGoesToParentsMover ==
    []C24_WinsWithinVisits /\ [][C24_CreditStep]_vars

\* An iteration that expanded a child and whose rollout was won by the root's
\* player to move: the child has one win, the root none
C24_Witness ==
    /\ mc.phase = "searching"
    /\ mc.i >= 2
    /\ mc.last.expanded
    /\ Len(mc.last.path) = 1
    /\ mc.last.winner = mc.nodes[<<>>].playerToMoveID
    /\ mc.nodes[mc.last.path].wins = 1
    /\ mc.nodes[mc.last.path].playerToMoveID # mc.last.winner
    /\ mc.nodes[<<>>].wins = 0

RolloutCalled == ro.phase \in {"running", "done"}

\* C26: a rollout ply sets a cell of the forced set (the winning cells of the
\* next player and of the mover) when the next player has a winning cell and
\* an empty cell otherwise, and leaves the board, the players, the winner and
\* the next player to move that SimulateStep returns for the same state and
\* cell; a four-run wins even though it holds a three-run.
C26_RolloutPlyIsSimulateStep ==
    (RolloutCalled /\ ro.idx # -1) =>
        LET p == ro.prev
            st == SimulateStep(p.board, p.players, p.curr, MoveFromIndex(ro.idx))
            nextP == p.players[((IndexOf(p.players, p.curr) + 1) % Len(p.players)) + 1]
            threats == WinningCells(p.board, nextP)
        IN  /\ ro.idx \in (IF threats # {} THEN threats \cup WinningCells(p.board, p.curr)
                           ELSE Not(p.board.Occupied))
            /\ ro.board = st.board
            /\ ro.players = st.remainingPlayers
            /\ (ro.phase = "done") = (st.winnerID # -1)
            /\ ro.result = st.winnerID
            /\ st.winnerID = -1 => ro.curr = st.nextPlayerID
            /\ HasRun(Runs4, ro.board.P[p.curr]) => (ro.result = p.curr /\ ro.players = p.players)

\* A ply of a rollout completed a four-run and ended the rollout
C26_Witness ==
    /\ ro.phase = "done"
    /\ ro.idx # -1
    /\ ro.result = ro.prev.curr
    /\ HasRun(Runs4, ro.board.P[ro.result])
    /\ ~HasRun(Runs4, ro.prev.board.P[ro.result])

\* The plies of a rollout each fill one cell that was empty when it began, and
\* its result is no winner only on a full board, and otherwise a player with
\* a four-run or the only player left
C27_RolloutBounded ==
    RolloutCalled =>
        /\ ro.plies + Cardinality(Not(ro.board.Occupied)) = ro.empty0
        /\ ro.plies <= ro.empty0
        /\ ro.phase = "done" =>
              /\ ro.result \in {-1} \cup PlayerIDs
              /\ ro.result = -1 => Not(ro.board.Occupied) = {}
              /\ ro.result # -1 =>
                    \/ HasRun(Runs4, ro.board.P[ro.result])
                    \/ ro.players = <<ro.result>>

\* C27: a rollout ends, after at most as many plies as there were empty
\* cells; it names at most one winner, the player with a four-run or the only
\* player left, and no winner only when no cell is empty.
C27_RolloutEnds ==
    []C27_RolloutBounded /\ ((ro.phase = "running") ~> (ro.phase = "done"))

\* A rollout of at least two plies ended in a draw on a full board
C27_Witness ==
    /\ ro.phase = "done"
    /\ ro.result = -1
    /\ ro.plies >= 2
    /\ ro.plies = ro.empty0
    /\ Not(ro.board.Occupied) = {}

\* C28: on every pair (stones, empty) the win mask of the four-lane extractor
\* is the mask the scalar enumeration of XXX., .XXX, XX.X and X.XX in
\* GetWinningMoves yields, and the lose masks of the two paths are equal once
\* the winning cells are taken out of them.
C28_VectorMatchesScalar ==
    out.done =>
        /\ out.vector.w = out.scalar.w
        /\ out.vector.w = GetWinningMoves(ProbeBoard(pb.stones, pb.empty), 0)
        /\ out.vector.l \ out.vector.w = out.scalar.l \ out.scalar.w
        /\ out.wl = [w |-> out.scalar.w, l |-> out.scalar.l \ out.scalar.w]

\* Both paths ran on stones with a gap pattern (a winning cell with a stone on
\* either side), a cell that only loses, and a winning cell in the raw lose
\* mask.
C28_Witness ==
    /\ out.done
    /\ \E W \in Runs4 : \E c \in W \cap out.scalar.w :
           /\ W \ {c} \subseteq pb.stones
           /\ \E a, z \in W : a < c /\ c < z
    /\ out.scalar.l \ out.scalar.w # {}
    /\ out.vector.l \cap out.vector.w # {}

\* C29: when the stones hold no three-run, an empty cell is a reported
\* winning cell exactly when CheckWin holds for the stones with that cell
\* added, and a reported losing cell exactly when CheckWin fails and CheckLose
\* holds for them; the mover who plays a reported winning cell is the winner,
\* the mover who plays a reported losing cell is removed from the players.
C29_ExtractorAgreesWithTerminalChecks ==
    (out.done /\ ~out.isLose) =>
        \A c \in pb.empty :
            \E isWin \in {CheckWin(pb.stones \cup {c})} :
                /\ (c \in out.wl.w) = isWin
                /\ (c \in out.scalar.w) = isWin
                /\ (c \in out.wl.l) = (~isWin /\ CheckLose(pb.stones \cup {c}))
                /\ (c \in out.wl.w \cup out.wl.l) =>
                       LET st == SimulateStep(ProbeBoard(pb.stones, pb.empty), <<0, 1, 2>>, 0,
                                              MoveFromIndex(c))
                       IN  /\ c \in out.wl.w => st.winnerID = 0
                           /\ c \in out.wl.l => (st.winnerID = -1
                                                  /\ st.remainingPlayers = <<1, 2>>)

\* Stones without a three-run for which the extractor reports a winning cell
\* and a losing cell on the anti-diagonal
C29_Witness ==
    /\ out.done
    /\ ~out.isLose
    /\ out.wl.w # {}
    /\ \E c \in out.wl.l : {c + 7, c + 14} \subseteq pb.stones \/ {c - 7, c + 7} \subseteq pb.stones

\* The players still in g.players of Run
RunPlayers(g) == {g.players[i] : i \in 1..Len(g.players)}

\* The stones of an active player hold no three-run unless the player has won
\* by a four-run; those of an eliminated player hold a three-run and no
\* four-run.
StonesFitStatus(stones, active, wonByFour) ==
    IF active
    THEN HasRun(Runs3, stones) => (wonByFour /\ HasRun(Runs4, stones))
    ELSE HasRun(Runs3, stones) /\ ~HasRun(Runs4, stones)

C30_StonesFitStatus ==
    \A p \in PlayerIDs :
        /\ StonesFitStatus(gs.Board.P[p], p \in BitsOf(gs.ActiveMask), gs.WinnerID = p)
        /\ StonesFitStatus(rg.board.P[p], p \in RunPlayers(rg),
                           rg.result = "fourInARow" /\ rg.turn.mover = p)
        /\ LET wl == GetWinsAndLosses(gs.Board.P[p], gs.Board.P[p])
           IN  /\ p \notin BitsOf(gs.ActiveMask) => (wl.l # {} /\ wl.w = {})
               /\ HasRun(Runs4, gs.Board.P[p]) => wl.w # {}

C30_EliminatedStaysPut ==
    \A p \in PlayerIDs :
        /\ (p \notin BitsOf(gs.ActiveMask) /\ gs' # NewGame) =>
               (p \notin BitsOf(gs'.ActiveMask) /\ gs'.Board.P[p] = gs.Board.P[p])
        /\ p \notin RunPlayers(rg) =>
               (p \notin RunPlayers(rg') /\ rg'.board.P[p] = rg.board.P[p])

ForcedOf(g) == GetForcedMoves(g.Board, ActiveIDs(g.ActiveMask), TurnIdxOf(g))

\* The cells applyMove does not refuse when the forced-move mask is forced
AcceptedCells(g, forced) ==
    IF forced = {} THEN Cells \ g.Board.Occupied ELSE forced \ g.Board.Occupied

\* Run is about to ask a player for a move
RunAsks == rg.result = "running" /\ Len(rg.players) >= 2

\* The list GetValidMoves hands to the player whose turn it is in Run
RunForced ==
    LET forcedMoves == GetValidMoves(rg.board, rg.players[rg.turnIdx + 1],
                                     rg.players[((rg.turnIdx + 1) % Len(rg.players)) + 1])
    IN  {ToIndex(forcedMoves[i]) : i \in 1..Len(forcedMoves)}

C31_SomeCellIsAccepted ==
    /\ ~IsTerminal(gs)[2] =>
           \E forced \in {ForcedOf(gs)} :
               /\ forced \subseteq Cells \ gs.Board.Occupied
               /\ forced = {} => gs.Board.Occupied # Cells
               /\ AcceptedCells(gs, forced) # {}
    /\ RunAsks =>
           \E forced \in {RunForced} :
               /\ forced \subseteq Cells \ rg.board.Occupied
               /\ forced = {} => rg.board.Occupied # Cells

C31_AcceptedCellIsPlayed ==
    (ret'.op = "applyMove" /\ ~IsTerminal(gs)[2]) =>
        /\ ret'.ok => gs'.Board.Occupied = gs.Board.Occupied \cup {ret'.idx}
        /\ ~ret'.ok => \/ ret'.idx \in gs.Board.Occupied
                       \/ ret'.idx \notin AcceptedCells(gs, ForcedOf(gs))

\* C31: in every state that is not terminal the forced-move set holds only
\* empty cells, the board has an empty cell when the set is empty, and so some
\* cell passes both tests of applyMove; a call of applyMove with such a cell
\* is accepted and fills the cell.
C31_GameNeverStuck ==
    []C31_SomeCellIsAccepted /\ [][C31_AcceptedCellIsPlayed]_vars

\* A forced move was accepted on a board where a cell that would complete a
\* four-run of the next player is occupied, and the game is still running
C31_Witness ==
    /\ Moved
    /\ ForcedOf(ret.prev) # {}
    /\ ret.idx \in ForcedOf(ret.prev)
    /\ ~IsTerminal(gs)[2]
    /\ \E p \in PlayerIDs : Completes(Runs4, ret.prev.Board.P[p]) \cap ret.prev.Board.Occupied # {}

\* C32: the move a search returns for the player to move in a running game,
\* whatever its budget, is an empty cell, and a cell of the forced moves when
\* there are forced moves.
C32_SearchReturnsAcceptedCell ==
    mc.phase = "done" =>
        /\ ToIndex(mc.move) \notin rg.board.Occupied
        /\ Len(mc.forcedMoves) > 0 => mc.move \in MoveSet(mc.forcedMoves)
        /\ mc.forcedMoves = RunForcedMoves
        /\ mc.move \in MoveSet(GetPossibleMoves(rg.board, rg.players[rg.turnIdx + 1],
                                                rg.players, -1))

\* A search with budget 0 returned while the mover was restricted to more
\* than one forced move and cell A1 was occupied
C32_Witness ==
    /\ mc.phase = "done"
    /\ mc.iterations = 0
    /\ Len(mc.forcedMoves) > 1
    /\ 0 \in rg.board.Occupied
    /\ mc.move = mc.forcedMoves[1]

\* C33: once IsTerminal is true, no applyMove call is accepted and the game
\* state (board, active mask, winner, hash) does not change until newGame.
C33_TerminalIsAbsorbing ==
    [][(IsTerminal(gs)[2] /\ ret'.op # "newGame") =>
           /\ ret'.op = "applyMove" => ~ret'.ok
           /\ gs'.Board = gs.Board
           /\ gs'.ActiveMask = gs.ActiveMask
           /\ gs'.WinnerID = gs.WinnerID
           /\ gs'.Hash = gs.Hash]_vars

====
